---------------------------- MODULE Spec2Model ----------------------------
(***************************************************************************)
(* Model of T0/RunConfig/RunConfigAPI.py: extractConfigParameter, the      *)
(* PhEDEx subscription planning of releasePromptReco, and the store        *)
(* transactions of configureRun, configureRunStream and releasePromptReco. *)
(***************************************************************************)
EXTENDS Integers, Sequences, FiniteSets, TLC

VARIABLES
    \* ---- extractConfigParameter harness ----
    xParam,     \* configParameter
    xEra,       \* era
    xRun,       \* run
    xResult,    \* returned value
    xPc,        \* "idle" | "call" | "done"
    \* ---- PhEDEx subscription planning harness ----
    pCfg,       \* datasetConfig (the fields the planning reads)
    pDqmTier,   \* tier0Config.Global.DQMDataTier
    pPhedex,    \* phedexConfigs.get(dataset): nodes, or absent
    pOrder,     \* iteration order of the Python sets of tiers
    pSubs,      \* subscriptions
    pPc,        \* "idle" | "call" | "done"
    pDataset,   \* dataset of the loop of line 748
    pHistory,   \* the passes through the planning code so far, with what
                \* each appended to subscriptions
    pRaw,       \* the RAW subscriptions configureRunStream plans for the
                \* same node assignment
    \* ---- Memory of the Express and PromptReco workflows ----
    mem,        \* scenario, Multicore, number of PhysicsSkims, the two
                \* values of specArguments['Memory'] once computed
    \* ---- the configuration store and its three operations ----
    db,         \* committed rows, one set per table
    stopped,    \* runs whose stop time has been set (external collaborator)
    lastOp      \* the last operation called and how it returned

resolverVars == <<xParam, xEra, xRun, xResult, xPc>>

plannerVars == <<pCfg, pDqmTier, pPhedex, pOrder, pSubs, pPc, pDataset,
                 pHistory, pRaw>>

memoryVars == <<mem>>

storeVars == <<db, stopped, lastOp>>

vars == <<xParam, xEra, xRun, xResult, xPc,
          pCfg, pDqmTier, pPhedex, pOrder, pSubs, pPc, pDataset, pHistory,
          pRaw, mem, db, stopped, lastOp>>

(***************************************************************************)
(* extractConfigParameter (RunConfigAPI.py 24-43)                          *)
(***************************************************************************)

\* Number of run thresholds a maxRun map may hold.
MaxThresholds == 2

\* Python None and a raised KeyError, as integers outside the value range.
NoneVal == -1
KeyErrorVal == -2

Eras == {"Run2023A", "Run2023B"}
Thresholds == {100 * i : i \in 1..MaxThresholds}
XRuns == {50 * i : i \in 1..(2 * MaxThresholds + 1)}

\* Values of an era/run dependent integer parameter (ProcessingVersion);
\* 0 is a value Python treats as false.
DefaultValues == {1}
OverrideValues == {0, 2, 3}

\* Python truth value of a parameter value (line 39: "if newConfigParameter:")
Truthy(v) == v # NoneVal /\ v # 0

Maps(K, V) == UNION {[S -> V] : S \in SUBSET K}
EmptyMap == [k \in {} |-> 0]

ScalarParams == [isDict : {FALSE}, value : DefaultValues \cup OverrideValues]
DictParams ==
    {[isDict |-> TRUE, hasEra |-> he, acqEra |-> em, hasMaxRun |-> hm,
      maxRun |-> mm, hasDefault |-> hd, default |-> d] :
        he \in BOOLEAN, hm \in BOOLEAN, hd \in BOOLEAN,
        em \in Maps(Eras, OverrideValues), mm \in Maps(Thresholds, OverrideValues),
        d \in DefaultValues}

\* a missing key carries no map, a missing default is never read
WellFormedDict(p) ==
    /\ (~p.hasEra => p.acqEra = EmptyMap)
    /\ (~p.hasMaxRun => p.maxRun = EmptyMap)

\* sorted(configParameter['maxRun'].keys())  (line 36)
RECURSIVE SortedKeys(_)
SortedKeys(S) ==
    IF S = {} THEN <<>>
    ELSE LET m == CHOOSE x \in S : \A y \in S : x <= y
         IN <<m>> \o SortedKeys(S \ {m})

\* the loop of lines 36-38 from position i on, acc being newConfigParameter
RECURSIVE MaxRunLoop(_, _, _, _, _)
MaxRunLoop(keys, i, maxRunMap, run, acc) ==
    IF i > Len(keys) THEN acc
    ELSE MaxRunLoop(keys, i + 1, maxRunMap, run,
                    IF run <= keys[i] THEN maxRunMap[keys[i]] ELSE acc)

\* configParameter['default'] (line 41): KeyError when the key is missing
DefaultOf(p) == IF p.hasDefault THEN p.default ELSE KeyErrorVal

\* a plausible slip: the run thresholds are consulted before the era map
extractConfigParameter_MaxRunFirst(p, era, run) ==
    IF p.isDict
    THEN LET new == IF p.hasMaxRun
                    THEN MaxRunLoop(SortedKeys(DOMAIN p.maxRun), 1,
                                    p.maxRun, run, NoneVal)
                    ELSE NoneVal
         IN IF Truthy(new) THEN new
            ELSE IF p.hasEra /\ era \in DOMAIN p.acqEra
                 THEN p.acqEra[era]
                 ELSE DefaultOf(p)
    ELSE p.value

extractConfigParameter(p, era, run) ==
    IF p.isDict
    THEN IF p.hasEra /\ era \in DOMAIN p.acqEra
         THEN p.acqEra[era]
         ELSE IF p.hasMaxRun
              THEN LET new == MaxRunLoop(SortedKeys(DOMAIN p.maxRun), 1,
                                         p.maxRun, run, NoneVal)
                   IN IF Truthy(new) THEN new ELSE DefaultOf(p)
              ELSE DefaultOf(p)
    ELSE p.value

ResolverInit ==
    /\ xParam \in ScalarParams \cup {p \in DictParams : WellFormedDict(p)}
    /\ xEra \in Eras
    /\ xRun \in XRuns
    /\ xResult = NoneVal
    /\ xPc = "call"

ExtractCall ==
    /\ xPc = "call"
    /\ xResult' = extractConfigParameter(xParam, xEra, xRun)
    /\ xPc' = "done"
    /\ UNCHANGED <<xParam, xEra, xRun>>


(***************************************************************************)
(* PhEDEx subscription planning of releasePromptReco (lines 800-911)       *)
(***************************************************************************)
NoNode == "None"
TapeNodes == {NoNode, "T1_Tape"}
DiskNodes == {NoNode, "T1_Disk"}
ArchivalNodes == {NoNode, "T0_Archive"}

DQMDataTiers == {"DQM", "DQMIO"}

\* the fields of a dataset config the release code reads for planning
DatasetPlanConfigs ==
    [WriteRECO : BOOLEAN, WriteAOD : BOOLEAN, WriteMINIAOD : BOOLEAN,
     WriteDQM : BOOLEAN, HasPhysicsSkims : BOOLEAN, HasAlcaSkims : BOOLEAN]

PhedexConfigs ==
    [present : {TRUE}, tape_node : TapeNodes, disk_node : DiskNodes,
     archival_node : ArchivalNodes]
NoPhedexConfig ==
    [present |-> FALSE, tape_node |-> NoNode, disk_node |-> NoNode,
     archival_node |-> NoNode]

\* A Python set of strings iterates in an order the language does not fix;
\* the rank below is one such order, "asc" or "desc".
TierRank(t) ==
    CASE t = "RECO" -> 1 [] t = "AOD" -> 2 [] t = "MINIAOD" -> 3
      [] t = "DQM" -> 4 [] t = "DQMIO" -> 5 [] t = "RAW-RECO" -> 6
      [] t = "USER" -> 7 [] t = "ALCARECO" -> 8
SetOrders == {"asc", "desc"}

RECURSIVE IterateSet(_, _)
IterateSet(S, ord) ==
    IF S = {} THEN <<>>
    ELSE LET m == CHOOSE x \in S : \A y \in S :
                     IF ord = "asc" THEN TierRank(x) <= TierRank(y)
                                    ELSE TierRank(x) >= TierRank(y)
         IN <<m>> \o IterateSet(S \ {m}, ord)

\* lines 805-826
TapeDataTiers(cfg, dqmTier) ==
    (IF cfg.WriteAOD THEN {"AOD"} ELSE {})
    \cup (IF cfg.WriteMINIAOD THEN {"MINIAOD"} ELSE {})
    \cup (IF cfg.WriteDQM THEN {dqmTier} ELSE {})
DiskDataTiers(cfg) ==
    (IF cfg.WriteRECO THEN {"RECO"} ELSE {})
    \cup (IF cfg.WriteAOD THEN {"AOD"} ELSE {})
    \cup (IF cfg.WriteMINIAOD THEN {"MINIAOD"} ELSE {})
SkimDataTiers(cfg) ==
    IF cfg.HasPhysicsSkims THEN {"RAW-RECO", "USER", "RECO", "AOD"} ELSE {}
AlcaDataTiers(cfg) ==
    IF cfg.HasAlcaSkims THEN {"ALCARECO"} ELSE {}

\* lines 913-923
WriteTiers(plan, dqmTier) ==
    (IF plan.WriteRECO THEN <<"RECO">> ELSE <<>>)
    \o (IF plan.WriteAOD THEN <<"AOD">> ELSE <<>>)
    \o (IF plan.WriteMINIAOD THEN <<"MINIAOD">> ELSE <<>>)
    \o (IF plan.WriteDQM THEN <<dqmTier>> ELSE <<>>)
    \o (IF plan.HasAlcaSkims THEN <<"ALCARECO">> ELSE <<>>)

\* A subscription dict; a key the code leaves out is the empty list (sites)
\* or FALSE (useSkim, isSkim), the defaults of setSubscriptionInformation.
Subscription(cust, nonCust, auto, dataset, useSkim, isSkim, tier) ==
    [custodialSites |-> cust, nonCustodialSites |-> nonCust,
     autoApproveSites |-> auto, priority |-> "high",
     primaryDataset |-> dataset, useSkim |-> useSkim, isSkim |-> isSkim,
     deleteFromSource |-> TRUE, dataTier |-> tier]

NodeList(node) == IF node # NoNode THEN <<node>> ELSE <<>>

\* a plausible slip: the dual request is not auto-approved at the disk node
TapeAndDiskSubscription_NoAutoApprove(phedex, dataset, tier) ==
    Subscription(<<phedex.tape_node>>, <<phedex.disk_node>>,
                 <<>>, dataset, TRUE, FALSE, tier)

\* lines 835-847
TapeAndDiskSubscription(phedex, dataset, tier) ==
    Subscription(<<phedex.tape_node>>, <<phedex.disk_node>>,
                 <<phedex.disk_node>>, dataset, TRUE, FALSE, tier)
\* a plausible slip: the disk node is listed whether or not it is set
SkimSubscription_AlwaysDisk(phedex, dataset, tier) ==
    Subscription(<<phedex.tape_node>>, <<phedex.disk_node>>,
                 <<phedex.disk_node>>, dataset, TRUE, TRUE, tier)

\* lines 850-862
SkimSubscription(phedex, dataset, tier) ==
    Subscription(<<phedex.tape_node>>, NodeList(phedex.disk_node),
                 NodeList(phedex.disk_node), dataset, TRUE, TRUE, tier)
\* a plausible slip: the custodial-only request is auto-approved at the tape
\* node
TapeOnlySubscription_AutoApproved(phedex, dataset, tier) ==
    Subscription(<<phedex.tape_node>>, <<>>, <<phedex.tape_node>>,
                 dataset, TRUE, FALSE, tier)
\* lines 865-874
TapeOnlySubscription(phedex, dataset, tier) ==
    Subscription(<<phedex.tape_node>>, <<>>, <<>>, dataset, TRUE, FALSE, tier)
\* a plausible slip: the request of an alignment tier is not flagged as skim
AlcaSubscription_NotFlagged(phedex, dataset, tier) ==
    Subscription(<<phedex.tape_node>>, <<>>, <<>>, dataset, TRUE, FALSE, tier)
\* lines 877-886
AlcaSubscription(phedex, dataset, tier) ==
    Subscription(<<phedex.tape_node>>, <<>>, <<>>, dataset, TRUE, TRUE, tier)
\* lines 889-898
DiskOnlySubscription(phedex, dataset, tier) ==
    Subscription(<<>>, <<phedex.disk_node>>, <<phedex.disk_node>>,
                 dataset, TRUE, FALSE, tier)
\* a plausible slip: the archival request is not auto-approved
ArchivalSubscription_NotAutoApproved(phedex, dataset, tier) ==
    Subscription(<<phedex.archival_node>>, <<>>, <<>>,
                 dataset, FALSE, FALSE, tier)

\* lines 904-911
ArchivalSubscription(phedex, dataset, tier) ==
    Subscription(<<phedex.archival_node>>, <<>>, <<phedex.archival_node>>,
                 dataset, FALSE, FALSE, tier)

\* the dict appended by the loop named kind
MakeSubscription(kind, phedex, dataset, tier) ==
    CASE kind = "tapeAndDisk" -> TapeAndDiskSubscription(phedex, dataset, tier)
      [] kind = "skim" -> SkimSubscription(phedex, dataset, tier)
      [] kind = "tapeOnly" -> TapeOnlySubscription(phedex, dataset, tier)
      [] kind = "alca" -> AlcaSubscription(phedex, dataset, tier)
      [] kind = "diskOnly" -> DiskOnlySubscription(phedex, dataset, tier)
      [] kind = "archival" -> ArchivalSubscription(phedex, dataset, tier)

\* a plausible slip: the loop is left after its first pass
MapTiers_FirstOnly(kind, phedex, dataset, tiers, ord) ==
    LET order == IterateSet(tiers, ord)
    IN [i \in 1..(IF Len(order) > 0 THEN 1 ELSE 0) |->
            MakeSubscription(kind, phedex, dataset, order[i])]

\* one "for dataTier in <set>: subscriptions.append(...)" loop
MapTiers(kind, phedex, dataset, tiers, ord) ==
    LET order == IterateSet(tiers, ord)
    IN [i \in 1..Len(order) |->
            MakeSubscription(kind, phedex, dataset, order[i])]

\* a plausible slip: the disk requests are planned without a tape or
\* archival node
PlanSubscriptions_DiskWithoutTape(cfg, dqmTier, phedex, dataset, ord) ==
    IF ~phedex.present THEN <<>>
    ELSE
    LET tape == TapeDataTiers(cfg, dqmTier)
        disk0 == DiskDataTiers(cfg)
        skim == SkimDataTiers(cfg)
        alca == AlcaDataTiers(cfg)
    IN IF phedex.tape_node # NoNode
       THEN LET disk == IF phedex.disk_node = NoNode THEN {} ELSE disk0
            IN MapTiers("tapeAndDisk", phedex, dataset, tape \cap disk, ord)
               \o MapTiers("skim", phedex, dataset, skim, ord)
               \o MapTiers("tapeOnly", phedex, dataset, tape \ disk, ord)
               \o MapTiers("alca", phedex, dataset, alca, ord)
               \o MapTiers("diskOnly", phedex, dataset, disk \ tape, ord)
       ELSE IF phedex.archival_node # NoNode
            THEN MapTiers("archival", phedex, dataset,
                          tape \cup disk0 \cup skim \cup alca, ord)
            ELSE IF phedex.disk_node # NoNode
                 THEN MapTiers("diskOnly", phedex, dataset, disk0, ord)
                 ELSE <<>>

\* lines 800-911: what one dataset appends to the list "subscriptions"
PlanSubscriptions(cfg, dqmTier, phedex, dataset, ord) ==
    IF ~phedex.present THEN <<>>
    ELSE
    LET tape == TapeDataTiers(cfg, dqmTier)
        disk0 == DiskDataTiers(cfg)
        skim == SkimDataTiers(cfg)
        alca == AlcaDataTiers(cfg)
    IN IF phedex.tape_node # NoNode
       THEN LET disk == IF phedex.disk_node = NoNode THEN {} ELSE disk0
            IN MapTiers("tapeAndDisk", phedex, dataset, tape \cap disk, ord)
               \o MapTiers("skim", phedex, dataset, skim, ord)
               \o MapTiers("tapeOnly", phedex, dataset, tape \ disk, ord)
               \o MapTiers("alca", phedex, dataset, alca, ord)
               \o MapTiers("diskOnly", phedex, dataset, disk \ tape, ord)
       ELSE IF phedex.archival_node # NoNode
            THEN MapTiers("archival", phedex, dataset,
                          tape \cup disk0 \cup skim \cup alca, ord)
            ELSE <<>>

PlanDataset == "PrimDS"

\* "%s-Error" % dataset (line 454)
ErrorDataset(dataset) ==
    CASE dataset = "P1" -> "P1-Error"
      [] dataset = "P2" -> "P2-Error"
      [] OTHER -> "PrimDS-Error"

\* a plausible slip: the archival node is custodial only without a tape node
RawSubscriptions_ArchivalOnlyWithoutTape(nodes, dataset) ==
    LET custodialSites == IF nodes.TapeNode # NoNode
                          THEN <<nodes.TapeNode>>
                          ELSE NodeList(nodes.ArchivalNode)
        custodialAutoApproveSites == IF nodes.TapeNode # NoNode THEN <<>>
                                     ELSE NodeList(nodes.ArchivalNode)
        nonCustodialSites == NodeList(nodes.DiskNode)
    IN (IF Len(custodialSites) > 0
        THEN <<Subscription(custodialSites, <<>>, custodialAutoApproveSites,
                            dataset, FALSE, FALSE, "RAW")>>
        ELSE <<>>)
       \o (IF Len(nonCustodialSites) > 0
           THEN <<Subscription(<<>>, nonCustodialSites, nonCustodialSites,
                               dataset, FALSE, FALSE, "RAW")>>
           ELSE <<>>)
       \o (IF nodes.ArchivalNode # NoNode
           THEN <<Subscription(<<nodes.ArchivalNode>>, <<>>,
                               <<nodes.ArchivalNode>>,
                               ErrorDataset(dataset), FALSE, FALSE, "RAW")>>
           ELSE <<>>)

\* lines 411-457 of configureRunStream: the subscriptions of the RAW data of
\* a dataset of a Bulk stream and of its error dataset
RawSubscriptions(nodes, dataset) ==
    LET custodialSites == NodeList(nodes.ArchivalNode)
                            \o NodeList(nodes.TapeNode)
        custodialAutoApproveSites == NodeList(nodes.ArchivalNode)
        nonCustodialSites == NodeList(nodes.DiskNode)
        nonCustodialAutoApproveSites == NodeList(nodes.DiskNode)
    IN (IF Len(custodialSites) > 0
        THEN <<Subscription(custodialSites, <<>>, custodialAutoApproveSites,
                            dataset, FALSE, FALSE, "RAW")>>
        ELSE <<>>)
       \o (IF Len(nonCustodialSites) > 0
           THEN <<Subscription(<<>>, nonCustodialSites,
                               nonCustodialAutoApproveSites,
                               dataset, FALSE, FALSE, "RAW")>>
           ELSE <<>>)
       \o (IF nodes.ArchivalNode # NoNode
           THEN <<Subscription(<<nodes.ArchivalNode>>, <<>>,
                               <<nodes.ArchivalNode>>,
                               ErrorDataset(dataset), FALSE, FALSE, "RAW")>>
           ELSE <<>>)

\* the node assignment of datasetConfig that line 405-409 stores as the
\* PhEDEx configuration of the dataset
AssignmentOf(phedex) ==
    [ArchivalNode |-> phedex.archival_node, TapeNode |-> phedex.tape_node,
     DiskNode |-> phedex.disk_node]

RawNotPlanned == [called |-> FALSE, subs |-> <<>>]

PlannerInit ==
    /\ pCfg \in DatasetPlanConfigs
    /\ pDqmTier \in DQMDataTiers
    /\ pPhedex \in PhedexConfigs \cup {NoPhedexConfig}
    /\ pOrder \in SetOrders
    /\ pSubs = <<>>
    /\ pPc = "call"
    /\ pDataset = PlanDataset
    /\ pHistory = <<>>
    /\ pRaw = RawNotPlanned

\* one pass through lines 800-1013 for pDataset, a dataset with DoReco set;
\* the record added to pHistory holds the inputs of the pass, what it
\* appended to the list "subscriptions", whether it built a PromptReco spec
\* (line 925) and the subscriptions it attached to the spec (lines 999-1000)
PlanCall ==
    /\ pPc = "call"
    /\ pSubs' = pSubs \o PlanSubscriptions(pCfg, pDqmTier, pPhedex,
                                           pDataset, pOrder)
    /\ pPc' = "done"
    /\ pHistory' = Append(pHistory,
                          [cfg |-> pCfg, dqmTier |-> pDqmTier,
                           phedex |-> pPhedex, dataset |-> pDataset,
                           before |-> Len(pSubs),
                           requests |-> SubSeq(pSubs', Len(pSubs) + 1,
                                               Len(pSubs')),
                           built |-> Len(WriteTiers(pCfg, pDqmTier)) > 0,
                           attached |->
                               IF Len(WriteTiers(pCfg, pDqmTier)) > 0
                               THEN pSubs' ELSE <<>>])
    /\ UNCHANGED <<pCfg, pDqmTier, pPhedex, pOrder, pDataset, pRaw>>

\* lines 411-457 for a dataset with the node assignment of pPhedex
RawPlanCall ==
    /\ pPc \in {"call", "done"}
    /\ ~pRaw.called
    /\ pRaw' = [called |-> TRUE,
                subs |-> RawSubscriptions(AssignmentOf(pPhedex), pDataset)]
    /\ UNCHANGED <<pCfg, pDqmTier, pPhedex, pOrder, pSubs, pPc, pDataset,
                   pHistory>>

\* Number of datasets of a run the planning loop passes through.
MaxPlanned == 2

\* the inputs of the passes of a run: two policies, three node assignments
RunPlanConfigs ==
    {c \in DatasetPlanConfigs :
        /\ c.WriteAOD /\ c.WriteMINIAOD /\ c.WriteDQM /\ ~c.HasAlcaSkims
        /\ c.WriteRECO = c.HasPhysicsSkims}
RunPhedexConfigs ==
    {NoPhedexConfig} \cup
    {p \in PhedexConfigs :
        /\ p.archival_node # NoNode
        /\ (p.tape_node = NoNode) = (p.disk_node = NoNode)}
PlannedDatasets == {"P1", "P2"}

PlannerRunInit ==
    /\ pCfg \in RunPlanConfigs
    /\ pDqmTier = "DQMIO"
    /\ pPhedex \in RunPhedexConfigs
    /\ pOrder \in SetOrders
    /\ pDataset \in PlannedDatasets
    /\ pSubs = <<>>
    /\ pPc = "call"
    /\ pHistory = <<>>
    /\ pRaw = RawNotPlanned

\* the loop of line 748 goes on to the next dataset of the run
PlanNext ==
    /\ pPc = "done"
    /\ Len(pHistory) < MaxPlanned
    /\ pCfg' \in RunPlanConfigs
    /\ pPhedex' \in RunPhedexConfigs
    /\ pOrder' \in SetOrders
    /\ pDataset' \in PlannedDatasets
    /\ pPc' = "call"
    /\ UNCHANGED <<pDqmTier, pSubs, pHistory, pRaw>>

(***************************************************************************)
(* Memory of the workflows (lines 538-549 and 938-951)                     *)
(***************************************************************************)
\* Largest value of Multicore and largest number of PhysicsSkims.
MaxCores == 8
MaxPhysicsSkims == 2

Scenarios == {"HeavyIonsRun2", "ppRun2", "cosmicsRun2"}
\* Multicore: None (NoneVal) or a core count
Multicores == {NoneVal} \cup 1..MaxCores

HeavyIon(scenario) == scenario = "HeavyIonsRun2"
\* lines 538-543 and 938-943
BaseMemory(scenario) == IF HeavyIon(scenario) THEN 3000 ELSE 2000

\* a plausible slip: the two increments are swapped
PerCoreMemory_Swapped(scenario) == IF HeavyIon(scenario) THEN 900 ELSE 1300

PerCoreMemory(scenario) == IF HeavyIon(scenario) THEN 1300 ELSE 900

\* lines 545-549: specArguments['Memory'] of the Express workflow
ExpressMemory(scenario, multicore) ==
    (BaseMemory(scenario) + PerCoreMemory(scenario))
    + (IF Truthy(multicore)
       THEN (multicore - 1) * PerCoreMemory(scenario) ELSE 0)

\* a plausible slip: the memory of the physics skims is left out
RecoMemory_NoSkims(scenario, multicore, numPhysicsSkims) ==
    (BaseMemory(scenario) + PerCoreMemory(scenario))
    + (IF Truthy(multicore)
       THEN (multicore - 1) * PerCoreMemory(scenario) ELSE 0)

\* lines 945-951: specArguments['Memory'] of the PromptReco workflow
RecoMemory(scenario, multicore, numPhysicsSkims) ==
    (BaseMemory(scenario) + PerCoreMemory(scenario))
    + (IF Truthy(multicore)
       THEN (multicore - 1) * PerCoreMemory(scenario) ELSE 0)
    + numPhysicsSkims * 100

MemoryIdle ==
    mem = [scenario |-> "ppRun2", multicore |-> NoneVal, numPhysicsSkims |-> 0,
           express |-> NoneVal, reco |-> NoneVal]

MemoryInit ==
    mem \in [scenario : Scenarios, multicore : Multicores,
             numPhysicsSkims : 0..MaxPhysicsSkims,
             express : {NoneVal}, reco : {NoneVal}]

ExpressMemoryCall ==
    /\ mem.express = NoneVal
    /\ mem' = [mem EXCEPT !.express = ExpressMemory(mem.scenario,
                                                    mem.multicore)]

RecoMemoryCall ==
    /\ mem.reco = NoneVal
    /\ mem' = [mem EXCEPT !.reco = RecoMemory(mem.scenario, mem.multicore,
                                              mem.numPhysicsSkims)]


(***************************************************************************)
(* The configuration store                                                 *)
(***************************************************************************)

\* most copies of one release record or subscription the model tells apart
MaxCopies == 2

\* first run number for which an unassigned path is fatal (line 109)
UnassignedCutover == 240000

Runs == {UnassignedCutover - 1, UnassignedCutover}
Streams == {"A", "B"}
Styles == {"Bulk", "Express", "Ignore"}
UnassignedPath == "Unassigned path"

\* hltConfig['mapping']: stream -> dataset -> trigger paths
MappingFull == [s \in {"A"} |-> [d \in {"P1", "P2"} |->
                    IF d = "P1" THEN {"p1", "p2"} ELSE {"p3"}]]
MappingUnassigned == [s \in {"A", "B"} |->
                        IF s = "A" THEN [d \in {UnassignedPath} |-> {"p9"}]
                                   ELSE [d \in {"P1"} |-> {"p1"}]]
NoHltConfig == [present |-> FALSE, mapping |-> EmptyMap]
HltConfigs == {[present |-> TRUE, mapping |-> m] :
                    m \in {MappingFull, MappingUnassigned}}

Tables == {"run_config", "stream", "primary_dataset", "stream_dataset",
           "trigger", "dataset_trigger", "storage_node", "cmssw_version",
           "repack_config", "prompt_calibration", "express_config",
           "special_dataset", "dataset_scenario", "phedex_config",
           "stream_done", "stream_style", "stream_fileset", "subscription",
           "workflow_monitoring", "reco_release_config", "reco_config",
           "release_record", "injected"}

EmptyDb == [t \in Tables |-> {}]

\* A DAO call inside a transaction: the rows it binds and how the table
\* takes them ("insert": add if absent; "update": replace the row of the
\* key; "unique": a row whose key exists is refused; "counted": every call
\* adds one more copy of the row).
Step(table, rows, mode) == [table |-> table, rows |-> rows, mode |-> mode]

\* key of a row of a table that holds one row per key
KeyOf(table, row) ==
    CASE table = "stream_style" -> <<row[1], row[2]>>
      [] table = "run_config" -> <<row[1]>>
      [] OTHER -> row

HasKey(store, table, key) ==
    \E row \in store[table] : KeyOf(table, row) = key

Copies(store, table, key) ==
    Cardinality({row \in store[table] : row[1] = key})

NextCopy(store, table, key) ==
    IF Copies(store, table, key) < MaxCopies
    THEN Copies(store, table, key) + 1
    ELSE MaxCopies

\* the store refuses the step (a row of a completed unit exists already)
Refused(store, step) ==
    /\ step.mode = "unique"
    /\ \E row \in step.rows :
          HasKey(store, step.table, KeyOf(step.table, row))

ApplyStep(store, step) ==
    CASE step.mode = "insert" ->
            [store EXCEPT ![step.table] = @ \cup step.rows]
      [] step.mode = "unique" ->
            [store EXCEPT ![step.table] = @ \cup step.rows]
      [] step.mode = "update" ->
            [store EXCEPT ![step.table] =
                {old \in @ : \A row \in step.rows :
                    KeyOf(step.table, old) # KeyOf(step.table, row)}
                \cup step.rows]
      [] step.mode = "counted" ->
            [store EXCEPT ![step.table] =
                @ \cup {<<key, NextCopy(store, step.table, key)>> :
                            key \in step.rows}]

\* Executes steps[i..] on cur; stops at the first step that raises, which is
\* step number failAt (a store failure) or a refused step.
RECURSIVE ExecSteps(_, _, _, _)
ExecSteps(cur, steps, i, failAt) ==
    IF i > Len(steps) THEN [store |-> cur, raised |-> FALSE]
    ELSE IF i = failAt \/ Refused(cur, steps[i])
         THEN [store |-> cur, raised |-> TRUE]
         ELSE ExecSteps(ApplyStep(cur, steps[i]), steps, i + 1, failAt)

\* a plausible slip: the except branch logs but does not roll back
Rollback_KeepsPartial(before, partial) == partial

\* myThread.transaction.rollback(): the store as it was at begin()
Rollback(before, partial) == before

\* a plausible slip: the exception of a step is swallowed and the remaining
\* steps run and commit
RECURSIVE ExecStepsIgnoringErrors(_, _, _, _)
ExecStepsIgnoringErrors(cur, steps, i, failAt) ==
    IF i > Len(steps) THEN [store |-> cur, raised |-> FALSE]
    ELSE IF i = failAt \/ Refused(cur, steps[i])
         THEN ExecStepsIgnoringErrors(cur, steps, i + 1, failAt)
         ELSE ExecStepsIgnoringErrors(ApplyStep(cur, steps[i]), steps,
                                      i + 1, failAt)
Transaction_ContinuesAfterError(before, steps, failAt) ==
    ExecStepsIgnoringErrors(before, steps, 1, failAt)

\* try: begin(); steps  except: rollback(); raise  else: commit()
Transaction(before, steps, failAt) ==
    LET r == ExecSteps(before, steps, 1, failAt)
    IN IF r.raised
       THEN [store |-> Rollback(before, r.store), raised |-> TRUE]
       ELSE [store |-> r.store, raised |-> FALSE]

\* drops the steps the code guards with "if len(binds) > 0"
RECURSIVE NonEmptySteps(_)
NonEmptySteps(steps) ==
    IF steps = <<>> THEN <<>>
    ELSE (IF Head(steps).rows = {} /\ Head(steps).guarded
          THEN <<>> ELSE <<[table |-> Head(steps).table,
                            rows |-> Head(steps).rows,
                            mode |-> Head(steps).mode]>>)
         \o NonEmptySteps(Tail(steps))

Guarded(step) == [table |-> step.table, rows |-> step.rows,
                  mode |-> step.mode, guarded |-> TRUE]
Always(step) == [table |-> step.table, rows |-> step.rows,
                 mode |-> step.mode, guarded |-> FALSE]

\* A store failure injected into a transaction: the nth DAO call on the
\* table raises (of the transaction of the run, for releasePromptReco).
Failure(run, table, nth) == [run |-> run, table |-> table, nth |-> nth]
NoFailure == Failure(0, "none", 0)

\* index in steps of the nth step on the table of the failure, 0 if none
RECURSIVE FailIndexFrom(_, _, _, _)
FailIndexFrom(steps, i, table, nth) ==
    IF i > Len(steps) THEN 0
    ELSE IF steps[i].table = table
         THEN IF nth = 1 THEN i
              ELSE FailIndexFrom(steps, i + 1, table, nth - 1)
         ELSE FailIndexFrom(steps, i + 1, table, nth)
FailIndex(steps, fail) ==
    IF fail = NoFailure THEN 0
    ELSE FailIndexFrom(steps, 1, fail.table, fail.nth)

\* the failure names a DAO call the transaction makes
FailureApplies(steps, fail) ==
    fail = NoFailure \/ FailIndex(steps, fail) > 0

\* lastOp: the operation, its run and stream arguments (for
\* releasePromptReco: the run whose transaction raised, and the pairs the
\* call selected; for configureRunStream: the processing style of the stream
\* in tier0Config), and whether it returned ("ok") or raised ("fatal")
\* (for configureRun: its hltConfig argument and whether a write of its
\* transaction failed in the store; for a configureRunStream call that
\* committed: the node assignments of the datasets in tier0Config and the
\* subscriptions set on the workflow; for releasePromptReco: the dataset
\* configurations of tier0Config)
NoOp == [op |-> "none", run |-> 0, stream |-> "", outcome |-> "none",
         style |-> "", selected |-> {}, hlt |-> NoHltConfig,
         storeFailure |-> FALSE, nodes |-> <<>>, subscriptions |-> <<>>,
         cfgs |-> <<>>]
Called(op, run, stream, outcome) ==
    [op |-> op, run |-> run, stream |-> stream, outcome |-> outcome,
     style |-> "", selected |-> {}, hlt |-> NoHltConfig,
     storeFailure |-> FALSE, nodes |-> <<>>, subscriptions |-> <<>>,
     cfgs |-> <<>>]

StoreInit ==
    /\ db = EmptyDb
    /\ stopped = {}
    /\ lastOp = NoOp

(***************************************************************************)
(* configureRun (lines 45-165)                                             *)
(***************************************************************************)
ExpressSubscribeNodes == {NoNode, "T2_Express"}

RunKind(store, run) ==
    IF \E row \in store.run_config : row[1] = run
    THEN (CHOOSE row \in store.run_config : row[1] = run)[2]
    ELSE "none"
RunExpressSubscribe(store, run) ==
    (CHOOSE row \in store.run_config : row[1] = run)[3]

\* line 107-112
HasUnassignedPath(mapping) ==
    \E s \in DOMAIN mapping : UnassignedPath \in DOMAIN mapping[s]

\* a plausible slip: the sentinel is bound like a dataset
AssignedDatasets_KeepsSentinel(mapping, s) == DOMAIN mapping[s]

\* lines 105-123: the dataset keys of a stream that are bound
AssignedDatasets(mapping, s) == DOMAIN mapping[s] \ {UnassignedPath}

\* lines 80-134, a run with an HLT configuration
ConfigureRunStepsHlt(run, mapping, expressNode) ==
    NonEmptySteps(<<
        Guarded(Step("storage_node",
                     IF expressNode # NoNode THEN {<<expressNode>>} ELSE {},
                     "insert")),
        Always(Step("run_config", {<<run, "hlt", expressNode>>}, "update")),
        Always(Step("stream", {<<s>> : s \in DOMAIN mapping}, "insert")),
        Always(Step("primary_dataset",
                    {<<d>> : d \in UNION {AssignedDatasets(mapping, s) :
                                            s \in DOMAIN mapping}},
                    "insert")),
        Always(Step("stream_dataset",
                    UNION {{<<run, d, s>> : d \in AssignedDatasets(mapping, s)} :
                            s \in DOMAIN mapping},
                    "insert")),
        Always(Step("trigger",
                    UNION {UNION {{<<path>> : path \in mapping[s][d]} :
                                    d \in AssignedDatasets(mapping, s)} :
                            s \in DOMAIN mapping},
                    "insert")),
        Always(Step("dataset_trigger",
                    UNION {UNION {{<<run, path, d>> : path \in mapping[s][d]} :
                                    d \in AssignedDatasets(mapping, s)} :
                            s \in DOMAIN mapping},
                    "insert"))
    >>)

\* lines 144-157, a local run
ConfigureRunStepsLocal(run) ==
    <<Step("run_config", {<<run, "local", NoNode>>}, "update")>>

\* configureRun(tier0Config, run, hltConfig); hltConfig is the configuration
\* of the HLT key of the run (None for a local run), which the run keeps
ConfigureRun(run, hlt, expressNode, fail) ==
    /\ RunKind(db, run) \in {"none", IF hlt.present THEN "hlt" ELSE "local"}
    /\ UNCHANGED stopped
    /\ IF hlt.present /\ HasUnassignedPath(hlt.mapping)
          /\ ~(run < UnassignedCutover)
       THEN /\ fail = NoFailure
            /\ lastOp' = [Called("configureRun", run, "", "fatal")
                            EXCEPT !.hlt = hlt]
            /\ UNCHANGED db
       ELSE LET steps == IF hlt.present
                         THEN ConfigureRunStepsHlt(run, hlt.mapping, expressNode)
                         ELSE ConfigureRunStepsLocal(run)
                r == Transaction(db, steps, FailIndex(steps, fail))
            IN /\ FailureApplies(steps, fail)
               /\ db' = r.store
               /\ lastOp' = [Called("configureRun", run, "",
                                    IF r.raised THEN "fatal" ELSE "ok")
                                EXCEPT !.hlt = hlt,
                                       !.storeFailure = (fail # NoFailure)]

\* the data-taking system sets the stop time of a run
StopRun(run) ==
    /\ RunKind(db, run) = "hlt"
    /\ run \notin stopped
    /\ stopped' = stopped \cup {run}
    /\ lastOp' = Called("stopRun", run, "", "ok")
    /\ UNCHANGED db

(***************************************************************************)
(* configureRunStream (lines 167-677)                                      *)
(***************************************************************************)
NodeAssignment(archival, tape, disk) ==
    [ArchivalNode |-> archival, TapeNode |-> tape, DiskNode |-> disk]
NodeAssignments == {NodeAssignment(NoNode, NoNode, NoNode),
                    NodeAssignment("T0_Archive", NoNode, NoNode),
                    NodeAssignment("T0_Archive", "T1_Tape", "T1_Disk")}

\* the datasets that have a configuration in tier0Config
Datasets == {"P1", "P2"}

\* what configureRunStream reads of tier0Config for one stream: the
\* processing style, the node assignment of each dataset (datasetConfig of
\* line 390) and the number of PromptCalibProd producers among the Express
\* AlcaSkims
StreamConfig(style, nodes, numProd) ==
    [style |-> style, nodes |-> nodes, numPromptCalibProd |-> numProd]
NoNodes == NodeAssignment(NoNode, NoNode, NoNode)
AllNodes == NodeAssignment("T0_Archive", "T1_Tape", "T1_Disk")
\* every dataset has the same node assignment
AllDatasets(nodes) == [d \in Datasets |-> nodes]
\* P1 has every node, P2 has none
MixedNodes == [d \in Datasets |-> IF d = "P1" THEN AllNodes ELSE NoNodes]
StreamConfigs ==
    {StreamConfig("Bulk", AllDatasets(nodes), 0) : nodes \in NodeAssignments}
    \cup {StreamConfig("Bulk", MixedNodes, 0)}
    \cup {StreamConfig("Express", nodes, n) :
                nodes \in {AllDatasets(NoNodes), MixedNodes}, n \in {0, 1}}
    \cup {StreamConfig("Ignore", AllDatasets(NoNodes), 0)}

OnlineVersion == "CMSSW_ONLINE"

\* "Stream%s" % stream (line 293)
SpecialDataset(stream) == IF stream = "A" THEN "StreamA" ELSE "StreamB"

\* GetStreamDatasets (line 205)
StreamDatasets(store, run, stream) ==
    {row[2] : row \in {x \in store.stream_dataset :
                            x[1] = run /\ x[3] = stream}}

\* GetStreamDatasetTriggers (line 386): the datasets of the stream that have
\* trigger paths
StreamDatasetTriggers(store, run, stream) ==
    {d \in StreamDatasets(store, run, stream) :
        \E row \in store.dataset_trigger : row[1] = run /\ row[3] = d}

\* workflowName and filesetName (lines 493, 531, 624, 931)
WorkflowName(kind, run, name) == <<kind, run, name>>
StreamFileset(run, stream) == <<"Fileset", run, stream>>
\* the merged output fileset of one dataset of the Repack workflow
MergeFileset(run, dataset) == <<"RepackMerge", run, dataset>>

NodesOf(nodes) ==
    {<<n>> : n \in {nodes.ArchivalNode, nodes.TapeNode, nodes.DiskNode}
                    \ {NoNode}}

\* a plausible slip: a workflow is set up for every style
BuildsWorkflow_Always(style) == TRUE

\* lines 591, 611 and 654: a workflow is built and registered for the stream
BuildsWorkflow(style) == style \in {"Bulk", "Express"}

\* a plausible slip: the completion marker is not written
CompletionSteps_NoMarker(run, stream, style) ==
    <<Always(Step("stream_style", {<<run, stream, style>>}, "unique"))>>

\* a plausible slip: the marker and the style are written by DAOs that
\* overwrite the row of the (run, stream)
CompletionSteps_Overwrites(run, stream, style) ==
    <<Always(Step("stream_done", {<<run, stream>>}, "insert")),
      Always(Step("stream_style", {<<run, stream, style>>}, "update"))>>

\* lines 652-653: InsertRunStreamDone and InsertStreamStyle
CompletionSteps(run, stream, style) ==
    <<Always(Step("stream_done", {<<run, stream>>}, "unique")),
      Always(Step("stream_style", {<<run, stream, style>>}, "unique"))>>

\* lines 630-665: the DAO calls of the transaction, in order
ConfigureRunStreamSteps(store, run, stream, cfg) ==
    LET style == cfg.style
        datasets == StreamDatasetTriggers(store, run, stream)
        special == SpecialDataset(stream)
        expressNode == RunExpressSubscribe(store, run)
        bulk == style = "Bulk"
        express == style = "Express"
        task == IF bulk THEN "Repack" ELSE "Express"
    IN NonEmptySteps(
        <<Guarded(Step("cmssw_version",
                       IF bulk \/ express THEN {<<OnlineVersion>>} ELSE {},
                       "insert")),
          Guarded(Step("primary_dataset",
                       IF express THEN {<<special>>} ELSE {}, "insert")),
          Guarded(Step("stream_dataset",
                       IF express THEN {<<run, special, stream>>} ELSE {},
                       "insert")),
          Guarded(Step("repack_config",
                       IF bulk THEN {<<run, stream>>} ELSE {}, "insert")),
          Guarded(Step("prompt_calibration",
                       IF express /\ cfg.numPromptCalibProd > 0
                       THEN {<<run, stream>>} ELSE {}, "insert")),
          Guarded(Step("express_config",
                       IF express THEN {<<run, stream>>} ELSE {}, "insert")),
          Guarded(Step("special_dataset",
                       IF express THEN {<<stream, special>>} ELSE {},
                       "insert")),
          Guarded(Step("dataset_scenario",
                       IF express THEN {<<run, special>>} ELSE {}, "insert")),
          Guarded(Step("storage_node",
                       IF bulk
                       THEN UNION {NodesOf(cfg.nodes[d]) : d \in datasets}
                       ELSE {},
                       "insert")),
          Guarded(Step("phedex_config",
                       IF bulk
                       THEN {<<run, d, cfg.nodes[d].ArchivalNode,
                               cfg.nodes[d].TapeNode, cfg.nodes[d].DiskNode>> :
                                d \in {x \in datasets :
                                            NodesOf(cfg.nodes[x]) # {}}}
                       ELSE IF express /\ expressNode # NoNode
                            THEN {<<run, d, NoNode, NoNode, expressNode>> :
                                    d \in datasets \cup {special}}
                            ELSE {},
                       "insert"))>>
        \o CompletionSteps(run, stream, style)
        \o (IF BuildsWorkflow(style)
            THEN <<Always(Step("stream_fileset",
                               {<<run, stream, StreamFileset(run, stream)>>},
                               "insert")),
                   Always(Step("subscription",
                               {WorkflowName(task, run, stream)}, "counted")),
                   Always(Step("workflow_monitoring",
                               {<<StreamFileset(run, stream)>>}, "insert"))>>
            ELSE <<>>)
        \o (IF bulk
            THEN <<Always(Step("reco_release_config",
                               {<<run, d, MergeFileset(run, d)>> :
                                    d \in datasets}, "insert"))>>
            ELSE <<>>))

\* a set of dataset names as the list a loop passes through, by name
RECURSIVE SortedNames(_)
SortedNames(S) ==
    IF S = {} THEN <<>>
    ELSE LET m == CHOOSE x \in S : \A y \in S :
                    (x = y) \/ (x = "P1") \/ (y = "P2")
         IN <<m>> \o SortedNames(S \ {m})

\* lines 317-323 and 478-484: the subscription of a dataset of an Express
\* stream to the express subscribe node of the run; it has no dataTier key
ExpressSubscription(expressNode, dataset) ==
    Subscription(<<>>, <<expressNode>>, <<expressNode>>, dataset,
                 FALSE, FALSE, "None")

\* a plausible slip: only the datasets of a Bulk stream are subscribed
DatasetSubscriptions_BulkOnly(style, nodes, expressNode, dataset) ==
    IF style = "Bulk" THEN RawSubscriptions(nodes, dataset) ELSE <<>>

\* lines 396-484: what the pass of the loop of line 388 for one dataset
\* appends to the list "subscriptions"
DatasetSubscriptions(style, nodes, expressNode, dataset) ==
    CASE style = "Bulk" -> RawSubscriptions(nodes, dataset)
      [] style = "Express" ->
            IF expressNode # NoNode
            THEN <<ExpressSubscription(expressNode, dataset)>>
            ELSE <<>>
      [] OTHER -> <<>>

RECURSIVE DatasetLoop(_, _, _, _, _)
DatasetLoop(order, i, style, nodes, expressNode) ==
    IF i > Len(order) THEN <<>>
    ELSE DatasetSubscriptions(style, nodes[order[i]], expressNode, order[i])
         \o DatasetLoop(order, i + 1, style, nodes, expressNode)

\* lines 259-484 and 601-610: the subscriptions set on the workflow of the
\* stream, those of the special dataset first
ConfigureRunStreamSubscriptions(store, run, stream, cfg) ==
    LET expressNode == RunExpressSubscribe(store, run)
    IN (IF cfg.style = "Express" /\ expressNode # NoNode
        THEN <<ExpressSubscription(expressNode, SpecialDataset(stream))>>
        ELSE <<>>)
       \o DatasetLoop(SortedNames(StreamDatasetTriggers(store, run, stream)),
                      1, cfg.style, cfg.nodes, expressNode)

\* a plausible slip: the consistency check is left out
ZeroDatasetsError_Never(store, run, stream, style) == FALSE

\* lines 201-207: a stream that is not ignored and has no dataset in the run
ZeroDatasetsError(store, run, stream, style) ==
    style # "Ignore" /\ StreamDatasets(store, run, stream) = {}

\* configureRunStream(tier0Config, run, stream, specDirectory, dqmUploadProxy)
ConfigureRunStream(run, stream, cfg, fail) ==
    /\ RunKind(db, run) # "none"
    /\ UNCHANGED stopped
    /\ IF RunKind(db, run) = "local"
       THEN /\ fail = NoFailure
            /\ lastOp' = Called("configureRunStream", run, stream, "ok")
            /\ UNCHANGED db
       ELSE IF ZeroDatasetsError(db, run, stream, cfg.style)
       THEN /\ fail = NoFailure
            /\ lastOp' = [Called("configureRunStream", run, stream, "fatal")
                            EXCEPT !.style = cfg.style]
            /\ UNCHANGED db
       ELSE LET steps == ConfigureRunStreamSteps(db, run, stream, cfg)
                r == Transaction(db, steps, FailIndex(steps, fail))
            IN /\ FailureApplies(steps, fail)
               /\ db' = r.store
               /\ lastOp' = [Called("configureRunStream", run, stream,
                                    IF r.raised THEN "fatal" ELSE "ok")
                                EXCEPT !.style = cfg.style,
                                       !.nodes =
                                          IF r.raised THEN <<>> ELSE cfg.nodes,
                                       !.subscriptions =
                                          IF r.raised THEN <<>>
                                          ELSE ConfigureRunStreamSubscriptions(
                                                    db, run, stream, cfg)]

(***************************************************************************)
(* releasePromptReco (lines 679-1039)                                      *)
(***************************************************************************)
\* what releasePromptReco reads of a dataset config to decide on a workflow
ReleaseConfig(doReco, plan) == [DoReco |-> doReco, plan |-> plan]
PlanAOD == [WriteRECO |-> FALSE, WriteAOD |-> TRUE, WriteMINIAOD |-> FALSE,
            WriteDQM |-> FALSE, HasPhysicsSkims |-> FALSE,
            HasAlcaSkims |-> FALSE]
PlanNothing == [PlanAOD EXCEPT !.WriteAOD = FALSE]
ReleaseConfigs == {ReleaseConfig(TRUE, PlanAOD), ReleaseConfig(FALSE, PlanAOD),
                   ReleaseConfig(TRUE, PlanNothing)}

\* a plausible slip: DoReco is not looked at
BuildsRecoSpec_IgnoresDoReco(cfg) == Len(WriteTiers(cfg.plan, "DQMIO")) > 0

\* line 925: a PromptReco spec is created for the dataset
BuildsRecoSpec(cfg) == cfg.DoReco /\ Len(WriteTiers(cfg.plan, "DQMIO")) > 0

\* a plausible slip: released pairs are selected again
FindRecoRelease_IgnoresReleased(store, ended, due) ==
    {pair \in due :
        /\ pair[1] \in ended
        /\ \E row \in store.reco_release_config :
              row[1] = pair[1] /\ row[2] = pair[2]}

\* FindRecoRelease (line 725): the (run, dataset) pairs with a release
\* configuration whose run has ended, whose delay condition holds (due) and
\* which have no release record
FindRecoRelease(store, ended, due) ==
    {pair \in due :
        /\ pair[1] \in ended
        /\ \E row \in store.reco_release_config :
              row[1] = pair[1] /\ row[2] = pair[2]
        /\ Copies(store, "release_record", pair) = 0}

\* recoRelease[run], in the order the loop of line 748 takes it
RunBatch(selected, run) ==
    SortedNames({pair[2] : pair \in {x \in selected : x[1] = run}})

\* lines 1027-1029, for the datasets batch[i..] that have a spec
RECURSIVE RecoSpecSteps(_, _, _, _)
RecoSpecSteps(run, batch, i, cfgs) ==
    IF i > Len(batch) THEN <<>>
    ELSE (IF BuildsRecoSpec(cfgs[batch[i]])
          THEN <<Always(Step("subscription",
                             {WorkflowName("PromptReco", run, batch[i])},
                             "counted")),
                 Always(Step("workflow_monitoring",
                             {<<MergeFileset(run, batch[i])>>}, "insert"))>>
          ELSE <<>>)
         \o RecoSpecSteps(run, batch, i + 1, cfgs)

\* lines 1015-1031: the DAO calls of the transaction of one run, in order
ReleaseSteps(run, batch, cfgs) ==
    LET ds == {batch[i] : i \in 1..Len(batch)}
        specs == {d \in ds : BuildsRecoSpec(cfgs[d])}
    IN NonEmptySteps(
        <<Guarded(Step("dataset_scenario", {<<run, d>> : d \in ds}, "insert")),
          Guarded(Step("cmssw_version",
                       IF ds # {} THEN {<<"CMSSW_RECO">>} ELSE {}, "insert")),
          Guarded(Step("reco_config", {<<run, d>> : d \in ds}, "insert")),
          Guarded(Step("storage_node", {}, "insert")),
          Guarded(Step("release_record", {<<run, d>> : d \in ds}, "counted"))>>
        \o RecoSpecSteps(run, batch, 1, cfgs)
        \o <<Guarded(Step("injected",
                          {<<WorkflowName("PromptReco", run, d)>> : d \in specs},
                          "insert"))>>)

\* a plausible slip: the runs are taken from the highest to the lowest
SelectedRuns_Descending(selected) ==
    LET asc == SortedKeys({pair[1] : pair \in selected})
    IN [i \in 1..Len(asc) |-> asc[Len(asc) + 1 - i]]

\* sorted(recoRelease.keys()) (line 726)
SelectedRuns(selected) == SortedKeys({pair[1] : pair \in selected})

\* the loop of line 726 from runs[i] on; a raise ends the whole call
RECURSIVE ReleaseRuns(_, _, _, _, _, _)
ReleaseRuns(store, runs, i, selected, cfgs, fail) ==
    IF i > Len(runs) THEN [store |-> store, raised |-> FALSE, run |-> 0]
    ELSE LET run == runs[i]
             steps == ReleaseSteps(run, RunBatch(selected, run), cfgs)
             r == Transaction(store, steps,
                              IF fail.run = run THEN FailIndex(steps, fail)
                              ELSE 0)
         IN IF r.raised
            THEN [store |-> r.store, raised |-> TRUE, run |-> run]
            ELSE ReleaseRuns(r.store, runs, i + 1, selected, cfgs, fail)

\* the failure names a DAO call of the transaction of a selected run
ReleaseFailureApplies(selected, cfgs, fail) ==
    \/ fail = NoFailure
    \/ /\ \E pair \in selected : pair[1] = fail.run
       /\ FailIndex(ReleaseSteps(fail.run, RunBatch(selected, fail.run), cfgs),
                    fail) > 0

\* releasePromptReco(tier0Config, specDirectory, dqmUploadProxy); cfgs is the
\* dataset configuration of tier0Config, due the pairs whose delay condition
\* holds at the time of the call
\* the store and the record of the call that a releasePromptReco call leaves
ReleaseResult(store, ended, cfgs, due, fail) ==
    LET selected == FindRecoRelease(store, ended, due)
        r == ReleaseRuns(store, SelectedRuns(selected), 1, selected, cfgs,
                         fail)
    IN [store |-> r.store,
        op |-> [Called("releasePromptReco", r.run, "",
                       IF r.raised THEN "fatal" ELSE "ok")
                    EXCEPT !.selected = selected, !.cfgs = cfgs]]

ReleasePromptReco(cfgs, due, fail) ==
    /\ ReleaseFailureApplies(FindRecoRelease(db, stopped, due), cfgs, fail)
    /\ db' = ReleaseResult(db, stopped, cfgs, due, fail).store
    /\ lastOp' = ReleaseResult(db, stopped, cfgs, due, fail).op
    /\ UNCHANGED stopped

StoreIdle == StoreInit

PlannerIdle ==
    /\ pCfg = [WriteRECO |-> FALSE, WriteAOD |-> FALSE, WriteMINIAOD |-> FALSE,
               WriteDQM |-> FALSE, HasPhysicsSkims |-> FALSE,
               HasAlcaSkims |-> FALSE]
    /\ pDqmTier = "DQM"
    /\ pPhedex = NoPhedexConfig
    /\ pOrder = "asc"
    /\ pSubs = <<>>
    /\ pPc = "idle"
    /\ pDataset = PlanDataset
    /\ pHistory = <<>>
    /\ pRaw = RawNotPlanned

ResolverIdle ==
    /\ xParam = [isDict |-> FALSE, value |-> 1]
    /\ xEra = "Run2023A"
    /\ xRun = 50
    /\ xResult = NoneVal
    /\ xPc = "idle"

InitResolver == ResolverInit /\ PlannerIdle /\ MemoryIdle /\ StoreIdle
NextResolver ==
    ExtractCall /\ UNCHANGED plannerVars /\ UNCHANGED memoryVars
        /\ UNCHANGED storeVars
SpecResolver == InitResolver /\ [][NextResolver]_vars

PlannerFrame ==
    UNCHANGED resolverVars /\ UNCHANGED memoryVars /\ UNCHANGED storeVars

\* SpecPlanner: one pass of the release planning and the RAW planning of
\* configureRunStream, for every policy and node assignment
InitPlanner == PlannerInit /\ ResolverIdle /\ MemoryIdle /\ StoreIdle
PlannerPlanCall == PlanCall /\ PlannerFrame
PlannerRawPlanCall == RawPlanCall /\ PlannerFrame
NextPlanner ==
    \/ PlannerPlanCall
    \/ PlannerRawPlanCall
SpecPlanner == InitPlanner /\ [][NextPlanner]_vars

\* SpecPlannerRun: the passes of the planning loop for the datasets of a run
InitPlannerRun == PlannerRunInit /\ ResolverIdle /\ MemoryIdle /\ StoreIdle
RunPlanCall == PlanCall /\ PlannerFrame
RunPlanNext == PlanNext /\ PlannerFrame
NextPlannerRun ==
    \/ RunPlanCall
    \/ RunPlanNext
SpecPlannerRun == InitPlannerRun /\ [][NextPlannerRun]_vars

\* SpecMemory: the Memory of both workflows for one scenario and core count
InitMemory == MemoryInit /\ ResolverIdle /\ PlannerIdle /\ StoreIdle
MemoryFrame ==
    UNCHANGED resolverVars /\ UNCHANGED plannerVars /\ UNCHANGED storeVars
MemoryExpressCall == ExpressMemoryCall /\ MemoryFrame
MemoryRecoCall == RecoMemoryCall /\ MemoryFrame
NextMemory ==
    \/ MemoryExpressCall
    \/ MemoryRecoCall
SpecMemory == InitMemory /\ [][NextMemory]_vars

Init == StoreInit /\ ResolverIdle /\ PlannerIdle /\ MemoryIdle

AllPairs == Runs \X Datasets
StoreFrame ==
    UNCHANGED resolverVars /\ UNCHANGED plannerVars /\ UNCHANGED memoryVars

\* Spec: every operation, with store failures in configureRun and
\* configureRunStream; releasePromptReco runs with every delay elapsed.
ConfigureRunFailures ==
    {NoFailure, Failure(0, "run_config", 1), Failure(0, "dataset_trigger", 1)}
ConfigureRunStreamFailures ==
    {NoFailure, Failure(0, "cmssw_version", 1), Failure(0, "subscription", 1),
     Failure(0, "reco_release_config", 1)}
SpecStreamConfigs ==
    {StreamConfig("Bulk", AllDatasets(NoNodes), 0),
     StreamConfig("Bulk", AllDatasets(AllNodes), 0),
     StreamConfig("Express", AllDatasets(NoNodes), 1),
     StreamConfig("Ignore", AllDatasets(NoNodes), 0)}

NextConfigureRun ==
    /\ StoreFrame
    /\ \E run \in Runs, hlt \in HltConfigs \cup {NoHltConfig},
          fail \in ConfigureRunFailures :
            ConfigureRun(run, hlt,
                         IF hlt.present THEN "T2_Express" ELSE NoNode, fail)
NextConfigureRunStream ==
    /\ StoreFrame
    /\ \E run \in Runs, cfg \in SpecStreamConfigs,
          fail \in ConfigureRunStreamFailures :
            ConfigureRunStream(run, "A", cfg, fail)
NextStopRun ==
    /\ StoreFrame
    /\ \E run \in Runs : StopRun(run)
NextReleasePromptReco ==
    /\ StoreFrame
    /\ \E cfg \in ReleaseConfigs :
            ReleasePromptReco([d \in Datasets |-> cfg], AllPairs, NoFailure)

Next ==
    \/ NextConfigureRun
    \/ NextConfigureRunStream
    \/ NextStopRun
    \/ NextReleasePromptReco
Spec == Init /\ [][Next]_vars

\* SpecStream: runs ingested with and without an express subscribe node, then
\* configureRunStream for every style and every node assignment of the
\* datasets; the store does not fail.
StreamConfigureRun ==
    /\ StoreFrame
    /\ \E run \in Runs, expressNode \in ExpressSubscribeNodes :
            ConfigureRun(run, [present |-> TRUE, mapping |-> MappingFull],
                         expressNode, NoFailure)
StreamConfigureRunStream ==
    /\ StoreFrame
    /\ \E run \in Runs, cfg \in StreamConfigs :
            ConfigureRunStream(run, "A", cfg, NoFailure)
NextStream ==
    \/ StreamConfigureRun
    \/ StreamConfigureRunStream
SpecStream == Init /\ [][NextStream]_vars

\* SpecRelease: runs configured for repacking without failures, then every
\* releasePromptReco call: differing dataset configurations, differing sets
\* of elapsed delays, a store failure at one of the listed DAO calls.
ReleaseFailures ==
    {NoFailure} \cup
    {Failure(run, table, 1) : run \in Runs,
        table \in {"release_record", "subscription", "injected"}}
PlanAlcaOnly == [PlanNothing EXCEPT !.HasAlcaSkims = TRUE]
PlanPhysicsSkimsOnly == [PlanNothing EXCEPT !.HasPhysicsSkims = TRUE]
PlanRecoDqm == [PlanNothing EXCEPT !.WriteRECO = TRUE, !.WriteDQM = TRUE]
PlanMiniAOD == [PlanNothing EXCEPT !.WriteMINIAOD = TRUE]
ReleaseConfigChoices ==
    {[d \in Datasets |-> ReleaseConfig(TRUE, PlanAOD)],
     [d \in Datasets |-> IF d = "P1" THEN ReleaseConfig(TRUE, PlanAOD)
                                     ELSE ReleaseConfig(FALSE, PlanAOD)],
     [d \in Datasets |-> IF d = "P1" THEN ReleaseConfig(TRUE, PlanNothing)
                                     ELSE ReleaseConfig(TRUE, PlanAOD)],
     [d \in Datasets |-> IF d = "P1"
                         THEN ReleaseConfig(TRUE, PlanAlcaOnly)
                         ELSE ReleaseConfig(TRUE, PlanPhysicsSkimsOnly)],
     [d \in Datasets |-> IF d = "P1" THEN ReleaseConfig(TRUE, PlanRecoDqm)
                                     ELSE ReleaseConfig(TRUE, PlanMiniAOD)]}
DueChoices ==
    {AllPairs, Runs \X {"P1"}, {UnassignedCutover} \X Datasets}

RelConfigureRun ==
    /\ StoreFrame
    /\ \E run \in Runs :
            ConfigureRun(run, [present |-> TRUE, mapping |-> MappingFull],
                         "T2_Express", NoFailure)
RelConfigureRunStream ==
    /\ StoreFrame
    /\ \E run \in Runs :
            ConfigureRunStream(run, "A",
                               StreamConfig("Bulk", AllDatasets(NoNodes), 0),
                               NoFailure)
RelReleasePromptReco ==
    /\ StoreFrame
    /\ \E cfgs \in ReleaseConfigChoices, due \in DueChoices,
          fail \in ReleaseFailures :
            ReleasePromptReco(cfgs, due, fail)

NextRelease ==
    \/ RelConfigureRun
    \/ RelConfigureRunStream
    \/ NextStopRun
    \/ RelReleasePromptReco
SpecRelease == Init /\ [][NextRelease]_vars

\* a releasePromptReco call in which every delay has elapsed and the store
\* does not fail
CleanRelease ==
    /\ StoreFrame
    /\ \E cfgs \in ReleaseConfigChoices :
            ReleasePromptReco(cfgs, AllPairs, NoFailure)

\* ENABLED <<CleanRelease>>_vars, written out: some such call changes the
\* store or the record of the last call
CleanReleaseEnabled ==
    \E cfgs \in ReleaseConfigChoices :
        LET res == ReleaseResult(db, stopped, cfgs, AllPairs, NoFailure)
        IN res.store # db \/ res.op # lastOp

\* SpecReleaseLive: SpecRelease in which the periodic caller keeps calling
\* and the store failures do not go on forever: weak fairness of
\* CleanRelease, with its enabling condition written as a state predicate
SpecReleaseLive ==
    SpecRelease /\ ([]<>(~CleanReleaseEnabled) \/ []<><<CleanRelease>>_vars)

(***************************************************************************)
(* Properties of extractConfigParameter                                    *)
(***************************************************************************)
EraHit == xParam.isDict /\ xParam.hasEra /\ xEra \in DOMAIN xParam.acqEra
ThresholdsAtOrAbove ==
    IF xParam.isDict /\ xParam.hasMaxRun
    THEN {t \in DOMAIN xParam.maxRun : t >= xRun}
    ELSE {}
SmallestAtOrAbove == CHOOSE t \in ThresholdsAtOrAbove :
                        \A u \in ThresholdsAtOrAbove : t <= u

\* C7: with the era not in the era map and a maxRun map present (a default
\* given, every override a true value), the result is the value of the
\* smallest threshold that is >= the run.
C7_SmallestThresholdWins ==
    (xPc = "done" /\ xParam.isDict /\ ~EraHit /\ xParam.hasMaxRun
        /\ xParam.hasDefault
        /\ (\A t \in DOMAIN xParam.maxRun : Truthy(xParam.maxRun[t]))
        /\ ThresholdsAtOrAbove # {})
    => xResult = xParam.maxRun[SmallestAtOrAbove]

\* C8: whenever the era map contains the current era the result is that era's
\* value, whatever the run and the maxRun map.
C8_EraTakesPrecedence ==
    (xPc = "done" /\ EraHit) => xResult = xParam.acqEra[xEra]

\* an era hit while a run threshold with another value also applies
C8_Witness ==
    /\ xPc = "done" /\ EraHit
    /\ \E t \in ThresholdsAtOrAbove :
          xParam.maxRun[t] # xParam.acqEra[xEra] /\ Truthy(xParam.maxRun[t])
    /\ xResult = xParam.acqEra[xEra]

\* C9: the default is returned exactly when the era is not in the era map and
\* no threshold >= run exists; a scalar is returned unchanged; a structured
\* value with a default never raises.
C9_DefaultExactlyWhenUnresolved ==
    xPc = "done" =>
        /\ (xParam.isDict /\ xParam.hasDefault) =>
              /\ xResult # KeyErrorVal
              /\ (xResult = xParam.default
                    <=> (~EraHit /\ ThresholdsAtOrAbove = {}))
        /\ (~xParam.isDict) => xResult = xParam.value

(***************************************************************************)
(* Properties of the subscription planning                                 *)
(***************************************************************************)
SubsOfTier(tier) == {i \in 1..Len(pSubs) : pSubs[i].dataTier = tier}

\* C10: with a tape node and a disk node, each tier of both the tape and the
\* disk category and of no skim category yields exactly one request:
\* custodial at the tape node, non-custodial and auto-approved at the disk
\* node, for that tier.
C10_TapeAndDiskTiers ==
    (pPc = "done" /\ pPhedex.present
        /\ pPhedex.tape_node # NoNode /\ pPhedex.disk_node # NoNode)
    => \A tier \in (TapeDataTiers(pCfg, pDqmTier) \cap DiskDataTiers(pCfg))
                      \ (SkimDataTiers(pCfg) \cup AlcaDataTiers(pCfg)) :
          /\ Cardinality(SubsOfTier(tier)) = 1
          /\ \A i \in SubsOfTier(tier) :
                /\ pSubs[i].custodialSites = <<pPhedex.tape_node>>
                /\ pSubs[i].nonCustodialSites = <<pPhedex.disk_node>>
                /\ pSubs[i].autoApproveSites = <<pPhedex.disk_node>>
                /\ pSubs[i].dataTier = tier

\* tape and disk node set, AOD written without physics skims, request planned
C10_Witness ==
    /\ pPc = "done" /\ pPhedex.present
    /\ pPhedex.tape_node = "T1_Tape" /\ pPhedex.disk_node = "T1_Disk"
    /\ pCfg.WriteAOD /\ ~pCfg.HasPhysicsSkims
    /\ \E i \in 1..Len(pSubs) :
          pSubs[i].dataTier = "AOD" /\ pSubs[i].custodialSites = <<"T1_Tape">>

AssignedNodes(phedex) ==
    {phedex.archival_node, phedex.tape_node, phedex.disk_node} \ {NoNode}
SitesOf(sub) ==
    {sub.custodialSites[i] : i \in DOMAIN sub.custodialSites}
    \cup {sub.nonCustodialSites[i] : i \in DOMAIN sub.nonCustodialSites}
    \cup {sub.autoApproveSites[i] : i \in DOMAIN sub.autoApproveSites}
AllTiers(cfg, dqmTier) ==
    TapeDataTiers(cfg, dqmTier) \cup DiskDataTiers(cfg)
        \cup SkimDataTiers(cfg) \cup AlcaDataTiers(cfg)

\* C11: a dataset with neither a tape node nor an archival node, with or
\* without a disk node and whatever it writes, gets no request.
C11_NoTapeNoArchivalNoRequests ==
    (pPc = "done"
        /\ pPhedex.tape_node = NoNode /\ pPhedex.archival_node = NoNode)
    => pSubs = <<>>

\* a dataset with a disk node only that writes disk tiers and skims was
\* planned
C11_Witness ==
    /\ pPc = "done" /\ pPhedex.present
    /\ pPhedex.tape_node = NoNode /\ pPhedex.archival_node = NoNode
    /\ pPhedex.disk_node = "T1_Disk"
    /\ pCfg.WriteRECO /\ pCfg.WriteAOD /\ pCfg.HasPhysicsSkims
    /\ pSubs = <<>>

\* C12: every site in the custodial, non-custodial or auto-approve list of a
\* request of the release planning or of the RAW planning is a node that is
\* set in the node assignment of the dataset.
C12_OnlyAssignedNodes ==
    /\ \A i \in 1..Len(pSubs) : SitesOf(pSubs[i]) \subseteq AssignedNodes(pPhedex)
    /\ \A i \in 1..Len(pRaw.subs) :
            SitesOf(pRaw.subs[i]) \subseteq AssignedNodes(pPhedex)

\* a tape node without a disk node, with skims: both plannings have run and
\* have planned requests
C12_Witness ==
    /\ pPc = "done" /\ pRaw.called
    /\ pPhedex.tape_node = "T1_Tape" /\ pPhedex.disk_node = NoNode
    /\ pCfg.HasPhysicsSkims /\ pCfg.WriteRECO
    /\ Len(pSubs) >= 4 /\ Len(pRaw.subs) >= 1

\* C13: with an archival node and no tape node, each tier of the union of
\* the four categories yields exactly one request, custodial at the archival
\* node only and auto-approved there, and there is no other request; with a
\* tape node, no request names the archival node.
C13_ArchivalOnlyWithoutTape ==
    /\ (pPc = "done" /\ pPhedex.present /\ pPhedex.tape_node = NoNode
            /\ pPhedex.archival_node # NoNode)
       => /\ Len(pSubs) = Cardinality(AllTiers(pCfg, pDqmTier))
          /\ \A tier \in AllTiers(pCfg, pDqmTier) :
                /\ Cardinality(SubsOfTier(tier)) = 1
                /\ \A i \in SubsOfTier(tier) :
                      /\ pSubs[i].custodialSites = <<pPhedex.archival_node>>
                      /\ pSubs[i].nonCustodialSites = <<>>
                      /\ pSubs[i].autoApproveSites = <<pPhedex.archival_node>>
    /\ (pPc = "done" /\ pPhedex.present /\ pPhedex.tape_node # NoNode
            /\ pPhedex.archival_node # NoNode)
       => \A i \in 1..Len(pSubs) :
                pPhedex.archival_node \notin SitesOf(pSubs[i])

\* archival node, no tape node, RECO in both the disk and the skim category
C13_Witness ==
    /\ pPc = "done" /\ pPhedex.present
    /\ pPhedex.tape_node = NoNode /\ pPhedex.archival_node = "T0_Archive"
    /\ pPhedex.disk_node = "T1_Disk"
    /\ pCfg.WriteRECO /\ pCfg.HasPhysicsSkims /\ pCfg.HasAlcaSkims
    /\ Len(pSubs) >= 5

\* the requests of a list as a multiset
BagOf(seq) ==
    [x \in {seq[i] : i \in DOMAIN seq} |->
        Cardinality({i \in DOMAIN seq : seq[i] = x})]
SameInputs(a, b) ==
    /\ a.cfg = b.cfg /\ a.dqmTier = b.dqmTier /\ a.phedex = b.phedex
    /\ a.dataset = b.dataset

RecoWorkflow(pair) == WorkflowName("PromptReco", pair[1], pair[2])
ReleaseRecords(store, pair) == Copies(store, "release_record", pair)
RecoSubscriptions(store, pair) ==
    Copies(store, "subscription", RecoWorkflow(pair))

\* the rows releasePromptReco writes for a (run, dataset) pair
ReleaseRows(store, pair) ==
    {<<"release_record", row>> : row \in
        {x \in store.release_record : x[1] = pair}}
    \cup {<<"subscription", row>> : row \in
        {x \in store.subscription : x[1] = RecoWorkflow(pair)}}
    \cup {<<"reco_config", row>> : row \in
        {x \in store.reco_config : x = pair}}
    \cup {<<"dataset_scenario", row>> : row \in
        {x \in store.dataset_scenario : x = pair}}
    \cup {<<"injected", row>> : row \in
        {x \in store.injected : x = <<RecoWorkflow(pair)>>}}

\* C1: each (run, dataset) pair has at most one release record and at most
\* one registered PromptReco subscription, and a releasePromptReco call made
\* once the pair has a release record writes no row for the pair.
C1_ReleasedAtMostOnce ==
    /\ [](\A pair \in AllPairs :
            ReleaseRecords(db, pair) <= 1 /\ RecoSubscriptions(db, pair) <= 1)
    /\ [][\A pair \in AllPairs :
            (lastOp'.op = "releasePromptReco" /\ ReleaseRecords(db, pair) >= 1)
            => (ReleaseRows(db', pair) = ReleaseRows(db, pair)
                /\ pair \notin lastOp'.selected)]_vars

\* a call released other pairs after this pair had been released
C1_Witness ==
    /\ lastOp.op = "releasePromptReco" /\ lastOp.outcome = "ok"
    /\ lastOp.selected # {}
    /\ \E pair \in AllPairs \ lastOp.selected :
          /\ pair[1] \in stopped
          /\ ReleaseRecords(db, pair) = 1 /\ RecoSubscriptions(db, pair) = 1

StreamWorkflows(run, stream) ==
    {WorkflowName("Repack", run, stream), WorkflowName("Express", run, stream)}
StreamSubscriptions(store, run, stream) ==
    Cardinality({row \in store.subscription :
                    row[1] \in StreamWorkflows(run, stream)})

\* C2: a configureRunStream call for a (run, stream) that has its completion
\* marker raises and leaves the store as it was, so that at most one
\* subscription of the Repack or Express workflow of a (run, stream) is ever
\* registered.
C2_ConfiguredAtMostOnce ==
    /\ [](\A run \in Runs, stream \in Streams :
            StreamSubscriptions(db, run, stream) <= 1)
    /\ [][(lastOp'.op = "configureRunStream"
            /\ <<lastOp'.run, lastOp'.stream>> \in db.stream_done)
          => (lastOp'.outcome = "fatal" /\ db' = db)]_vars

\* the second call for a (run, stream) with a registered workflow was refused
C2_Witness ==
    /\ lastOp.op = "configureRunStream" /\ lastOp.outcome = "fatal"
    /\ <<lastOp.run, lastOp.stream>> \in db.stream_done
    /\ StreamSubscriptions(db, lastOp.run, lastOp.stream) = 1

StyleOf(store, run, stream) ==
    {row[3] : row \in {x \in store.stream_style :
                            x[1] = run /\ x[2] = stream}}

\* C3: once a (run, stream) has a style row, no operation changes it.
C3_StyleNeverChanges ==
    [][\A run \in Runs, stream \in Streams :
        StyleOf(db, run, stream) # {}
        => StyleOf(db', run, stream) = StyleOf(db, run, stream)]_vars

\* a stream with the committed style Ignore was configured again with the
\* style Bulk, and the call raised
C3_Witness ==
    /\ lastOp.op = "configureRunStream" /\ lastOp.outcome = "fatal"
    /\ lastOp.style = "Bulk"
    /\ StyleOf(db, lastOp.run, lastOp.stream) = {"Ignore"}

\* the rows only configureRunStream writes for a (run, stream)
UnitTables == {"stream_done", "stream_style", "stream_fileset",
               "repack_config", "express_config", "prompt_calibration"}
UnitRows(store, run, stream) ==
    UNION {{<<t, row>> : row \in {x \in store[t] :
                                    x[1] = run /\ x[2] = stream}} :
            t \in UnitTables}
    \cup {<<"subscription", row>> : row \in
            {x \in store.subscription : x[1] \in StreamWorkflows(run, stream)}}
    \cup {<<"workflow_monitoring", row>> : row \in
            {x \in store.workflow_monitoring :
                x = <<StreamFileset(run, stream)>>}}

\* every row of a committed (run, stream) unit is there
UnitComplete(store, run, stream) ==
    /\ <<run, stream>> \in store.stream_done
    /\ \E style \in Styles :
        /\ StyleOf(store, run, stream) = {style}
        /\ style \in {"Bulk", "Express"} =>
            /\ <<run, stream, StreamFileset(run, stream)>>
                    \in store.stream_fileset
            /\ <<StreamFileset(run, stream)>> \in store.workflow_monitoring
            /\ StreamSubscriptions(store, run, stream) = 1
            /\ <<OnlineVersion>> \in store.cmssw_version
        /\ style = "Bulk" =>
            /\ <<run, stream>> \in store.repack_config
            /\ \A d \in StreamDatasetTriggers(store, run, stream) :
                    <<run, d, MergeFileset(run, d)>>
                        \in store.reco_release_config
        /\ style = "Express" =>
            /\ <<run, stream>> \in store.express_config
            /\ <<stream, SpecialDataset(stream)>> \in store.special_dataset
            /\ <<run, SpecialDataset(stream), stream>> \in store.stream_dataset
            /\ <<run, SpecialDataset(stream)>> \in store.dataset_scenario
        /\ style = "Ignore" =>
            StreamSubscriptions(store, run, stream) = 0

\* C4: a configureRunStream call on a run with an HLT configuration either
\* raises and leaves the store exactly as it was, or returns and has
\* committed every row of the (run, stream) unit, none of which was there
\* before.
C4_ConfigureAllOrNothing ==
    [][(lastOp'.op = "configureRunStream"
            /\ RunKind(db, lastOp'.run) = "hlt")
       => IF lastOp'.outcome = "fatal"
          THEN db' = db
          ELSE /\ lastOp'.outcome = "ok"
               /\ UnitRows(db, lastOp'.run, lastOp'.stream) = {}
               /\ UnitComplete(db', lastOp'.run, lastOp'.stream)]_vars

\* a first call for a stream with datasets raised inside the transaction and
\* nothing of the unit is in the store
C4_Witness ==
    /\ lastOp.op = "configureRunStream" /\ lastOp.outcome = "fatal"
    /\ StreamDatasets(db, lastOp.run, lastOp.stream) # {}
    /\ UnitRows(db, lastOp.run, lastOp.stream) = {}

BatchOf(selected, run) == {pair \in selected : pair[1] = run}

\* all rows of a released pair are there, the subscription and the injected
\* mark together
PairCommitted(store, pair) ==
    /\ ReleaseRecords(store, pair) = 1
    /\ pair \in store.reco_config
    /\ pair \in store.dataset_scenario
    /\ RecoSubscriptions(store, pair) <= 1
    /\ (RecoSubscriptions(store, pair) = 1
            <=> <<RecoWorkflow(pair)>> \in store.injected)
    /\ (RecoSubscriptions(store, pair) = 1
            => <<MergeFileset(pair[1], pair[2])>> \in store.workflow_monitoring)

\* C5: in a releasePromptReco call the batch of every run is committed as a
\* whole or not at all; the batches of the runs before the run that raised
\* are committed, that of the run that raised and of the runs after it are
\* not.
C5_RunBatchAtomic ==
    [][lastOp'.op = "releasePromptReco" =>
        \A run \in Runs :
            LET batch == BatchOf(lastOp'.selected, run)
            IN /\ \/ \A pair \in batch : PairCommitted(db', pair)
                  \/ \A pair \in batch :
                        ReleaseRows(db', pair) = ReleaseRows(db, pair)
               /\ (lastOp'.outcome = "ok" \/ run < lastOp'.run)
                    => \A pair \in batch : PairCommitted(db', pair)
               /\ (lastOp'.outcome = "fatal" /\ run >= lastOp'.run)
                    => \A pair \in batch : ReleaseRows(db', pair) = {}]_vars

\* the batch of the first run is committed, the batch of the second raised
C5_Witness ==
    /\ lastOp.op = "releasePromptReco" /\ lastOp.outcome = "fatal"
    /\ lastOp.run = UnassignedCutover
    /\ Cardinality(BatchOf(lastOp.selected, UnassignedCutover)) = 2
    /\ BatchOf(lastOp.selected, UnassignedCutover - 1) # {}
    /\ \A pair \in BatchOf(lastOp.selected, UnassignedCutover - 1) :
            ReleaseRecords(db, pair) = 1
    /\ \A pair \in BatchOf(lastOp.selected, UnassignedCutover) :
            ReleaseRecords(db, pair) = 0

FailedBatch ==
    IF lastOp.op = "releasePromptReco" /\ lastOp.outcome = "fatal"
    THEN BatchOf(lastOp.selected, lastOp.run)
    ELSE {}

\* C6: after the batch of a run raised, no pair of the batch has a release
\* record and each is selected again by a call in which its delay has
\* elapsed; and each is eventually released.
C6_FailedBatchRetried ==
    /\ [](\A pair \in FailedBatch :
            /\ ReleaseRecords(db, pair) = 0
            /\ pair \in FindRecoRelease(db, stopped, {pair}))
    /\ \A pair \in AllPairs :
            (pair \in FailedBatch) ~> (ReleaseRecords(db, pair) = 1)

\* a batch of two pairs raised after its subscriptions had been created
C6_Witness ==
    /\ Cardinality(FailedBatch) = 2
    /\ \A pair \in FailedBatch : pair \in FindRecoRelease(db, stopped, {pair})
    /\ \E pair \in AllPairs \ FailedBatch : ReleaseRecords(db, pair) = 1

(***************************************************************************)
(* Properties of configureRun and of the checks of configureRunStream      *)
(***************************************************************************)
\* the distinct dataset keys of a mapping without the sentinel, and one
\* edge for each of their paths
MappingDatasets(mapping) ==
    UNION {DOMAIN mapping[s] : s \in DOMAIN mapping} \ {UnassignedPath}
MappingEdges(run, mapping) ==
    UNION {UNION {{<<run, path, d>> : path \in mapping[s][d]} :
                    d \in DOMAIN mapping[s] \ {UnassignedPath}} :
            s \in DOMAIN mapping}
\* the paths a mapping has under the sentinel only
SentinelPaths(mapping) ==
    UNION {IF UnassignedPath \in DOMAIN mapping[s]
           THEN mapping[s][UnassignedPath] ELSE {} : s \in DOMAIN mapping}
    \ {edge[2] : edge \in MappingEdges(0, mapping)}
RunDatasets(store, run) ==
    {row[2] : row \in {x \in store.stream_dataset : x[1] = run}}
RunEdges(store, run) == {x \in store.dataset_trigger : x[1] = run}
SentinelRows(store) ==
    {<<"primary_dataset", x>> : x \in
        {y \in store.primary_dataset : y[1] = UnassignedPath}}
    \cup {<<"stream_dataset", x>> : x \in
        {y \in store.stream_dataset : y[2] = UnassignedPath}}
    \cup {<<"dataset_trigger", x>> : x \in
        {y \in store.dataset_trigger : y[3] = UnassignedPath}}

\* C15: configureRun with a mapping that holds the key "Unassigned path"
\* raises and writes nothing for a run from the cutover on; for a run below
\* the cutover it returns unless a write fails in the store, and then the
\* store has no dataset, stream-dataset or dataset-trigger row of the
\* sentinel and no new trigger row of a path that is under the sentinel only.
C15_UnassignedPathCutover ==
    [][(lastOp'.op = "configureRun" /\ lastOp'.hlt.present
            /\ HasUnassignedPath(lastOp'.hlt.mapping))
       => IF lastOp'.run >= UnassignedCutover
          THEN lastOp'.outcome = "fatal" /\ db' = db
          ELSE /\ lastOp'.outcome = "ok" <=> ~lastOp'.storeFailure
               /\ SentinelRows(db') = {}
               /\ \A path \in SentinelPaths(lastOp'.hlt.mapping) :
                        <<path>> \in db'.trigger => <<path>> \in db.trigger]_vars

\* a run below the cutover was configured with such a mapping: the dataset
\* of the other stream is there, the path of the sentinel is not
C15_Witness ==
    /\ lastOp.op = "configureRun" /\ lastOp.outcome = "ok"
    /\ lastOp.run < UnassignedCutover
    /\ lastOp.hlt.present /\ HasUnassignedPath(lastOp.hlt.mapping)
    /\ RunDatasets(db, lastOp.run) = {"P1"}
    /\ <<"p9">> \notin db.trigger

\* C16: a configureRun call with a mapping that returns adds to the datasets
\* recorded for the run exactly the distinct dataset keys of the mapping
\* without the sentinel, and to the dataset-trigger edges of the run exactly
\* one edge for each (dataset, path) of the mapping; for a run that had none,
\* the recorded sets are equal to those of the mapping.
C16_DatasetsOfMapping ==
    [][(lastOp'.op = "configureRun" /\ lastOp'.hlt.present
            /\ lastOp'.outcome = "ok")
       => LET run == lastOp'.run
              mapping == lastOp'.hlt.mapping
          IN /\ RunDatasets(db', run)
                    = RunDatasets(db, run) \cup MappingDatasets(mapping)
             /\ RunEdges(db', run)
                    = RunEdges(db, run) \cup MappingEdges(run, mapping)
             /\ \A d \in MappingDatasets(mapping) : <<d>> \in db'.primary_dataset
             /\ RunKind(db, run) = "none"
                    => /\ RunDatasets(db', run) = MappingDatasets(mapping)
                       /\ RunEdges(db', run) = MappingEdges(run, mapping)]_vars

\* a run was configured with the mapping of two datasets and three paths
C16_Witness ==
    /\ lastOp.op = "configureRun" /\ lastOp.outcome = "ok"
    /\ lastOp.hlt.present /\ lastOp.hlt.mapping = MappingFull
    /\ RunDatasets(db, lastOp.run) = {"P1", "P2"}
    /\ Cardinality(RunEdges(db, lastOp.run)) = 3

\* C17: a configureRun call in which a write fails in the store raises and
\* leaves the store as it was; every call that raises leaves the store as it
\* was; a call that returns has recorded the run configuration, with a
\* mapping (and then the express node and the streams of the mapping too)
\* and without one.
C17_ConfigureRunAtomic ==
    [][lastOp'.op = "configureRun"
       => /\ lastOp'.storeFailure => lastOp'.outcome = "fatal"
          /\ lastOp'.outcome = "fatal" => db' = db
          /\ lastOp'.outcome = "ok"
                => /\ RunKind(db', lastOp'.run)
                        = (IF lastOp'.hlt.present THEN "hlt" ELSE "local")
                   /\ lastOp'.hlt.present
                        => /\ RunExpressSubscribe(db', lastOp'.run) # NoNode
                                => <<RunExpressSubscribe(db', lastOp'.run)>>
                                        \in db'.storage_node
                           /\ \A s \in DOMAIN lastOp'.hlt.mapping :
                                    <<s>> \in db'.stream]_vars

\* the last write of the first configureRun call of a run with a mapping
\* failed and nothing of the run is in the store
C17_Witness ==
    /\ lastOp.op = "configureRun" /\ lastOp.outcome = "fatal"
    /\ lastOp.storeFailure /\ lastOp.hlt.present
    /\ RunKind(db, lastOp.run) = "none"
    /\ RunDatasets(db, lastOp.run) = {} /\ RunEdges(db, lastOp.run) = {}

\* C18: configureRunStream on a run with an HLT configuration, for a stream
\* with no dataset in the run: with the style Bulk or Express it raises and
\* leaves the store as it was; with the style Ignore it returns and commits
\* the marker and the style, unless the stream has its marker already.
C18_ZeroDatasetsFatal ==
    [][(lastOp'.op = "configureRunStream"
            /\ RunKind(db, lastOp'.run) = "hlt"
            /\ StreamDatasets(db, lastOp'.run, lastOp'.stream) = {})
       => IF lastOp'.style # "Ignore"
          THEN lastOp'.outcome = "fatal" /\ db' = db
          ELSE (<<lastOp'.run, lastOp'.stream>> \notin db.stream_done)
                => /\ lastOp'.outcome = "ok"
                   /\ <<lastOp'.run, lastOp'.stream>> \in db'.stream_done
                   /\ StyleOf(db', lastOp'.run, lastOp'.stream) = {"Ignore"}]_vars

\* a Bulk stream without datasets was refused before anything was written
C18_Witness ==
    /\ lastOp.op = "configureRunStream" /\ lastOp.outcome = "fatal"
    /\ lastOp.style = "Bulk"
    /\ RunKind(db, lastOp.run) = "hlt"
    /\ StreamDatasets(db, lastOp.run, lastOp.stream) = {}
    /\ <<lastOp.run, lastOp.stream>> \notin db.stream_done
    /\ db.subscription = {}

(***************************************************************************)
(* Properties of the Memory of the workflows                               *)
(***************************************************************************)
\* C19: for every core count from 1 on, the Memory of the Express workflow
\* is base + perCore * cores, with (3000, 1300) for the heavy-ion scenario
\* and (2000, 900) for every other; 4 heavy-ion cores give 8200.
C19_ExpressMemory ==
    (mem.express # NoneVal /\ mem.multicore >= 1)
    => /\ mem.express
            = (IF mem.scenario = "HeavyIonsRun2"
               THEN 3000 + 1300 * mem.multicore
               ELSE 2000 + 900 * mem.multicore)
       /\ (mem.scenario = "HeavyIonsRun2" /\ mem.multicore = 4)
            => mem.express = 8200

\* the Memory of a heavy-ion Express workflow with 4 cores was computed
C19_Witness ==
    /\ mem.scenario = "HeavyIonsRun2" /\ mem.multicore = 4
    /\ mem.express = 8200

\* C20 as stated: the Memory of the PromptReco workflow is that of an
\* Express workflow of the same scenario and core count, whatever the
\* dataset declares.
C20_RecoMemorySameRule ==
    (mem.express # NoneVal /\ mem.reco # NoneVal) => mem.reco = mem.express

\* C20, amended: the Memory of the PromptReco workflow is that of an Express
\* workflow of the same scenario and core count plus 100 for each physics
\* skim of the dataset; the two are equal for a dataset without physics
\* skims.
C20_RecoMemoryAddsSkims ==
    (mem.express # NoneVal /\ mem.reco # NoneVal)
    => /\ mem.reco = mem.express + 100 * mem.numPhysicsSkims
       /\ mem.numPhysicsSkims = 0 => mem.reco = mem.express

\* both were computed for 4 heavy-ion cores and a dataset with two skims
C20_Witness ==
    /\ mem.scenario = "HeavyIonsRun2" /\ mem.multicore = 4
    /\ mem.numPhysicsSkims = 2
    /\ mem.express = 8200 /\ mem.reco = 8400

(***************************************************************************)
(* Properties of the RAW subscriptions of configureRunStream               *)
(***************************************************************************)
\* the RAW requests of the dataset itself, without those of its error dataset
RawOfDataset ==
    SelectSeq(pRaw.subs, LAMBDA s : s.primaryDataset = pDataset)

SiteLists(sub) ==
    <<sub.custodialSites, sub.nonCustodialSites, sub.autoApproveSites>>

\* the loops of the release planning that run for a node assignment
PlannerKinds(phedex) ==
    IF phedex.tape_node # NoNode
    THEN {"skim", "tapeOnly", "alca"}
         \cup (IF phedex.disk_node # NoNode
               THEN {"tapeAndDisk", "diskOnly"} ELSE {})
    ELSE IF phedex.archival_node # NoNode THEN {"archival"} ELSE {}

\* C21 as stated: every RAW request of a Bulk dataset has the sites of a
\* request the release planning makes for a tier under the same archival,
\* tape and disk assignment, and the archival node is a custodial site of a
\* RAW request only when no tape node is assigned.
C21_RawAsReleasePlanner ==
    pRaw.called
    => \A i \in DOMAIN RawOfDataset :
          /\ \E kind \in PlannerKinds(pPhedex) :
                SiteLists(RawOfDataset[i])
                  = SiteLists(MakeSubscription(kind, pPhedex, pDataset, "RAW"))
          /\ (pPhedex.archival_node # NoNode
                /\ pPhedex.archival_node \in SitesOf(RawOfDataset[i]))
             => pPhedex.tape_node = NoNode

\* C21, amended: the RAW requests of a Bulk dataset are one custodial request
\* at the archival node and the tape node (those assigned, in this order),
\* auto-approved at the archival node only, and one non-custodial request at
\* the disk node, auto-approved there; the archival node is a custodial site
\* whenever it is assigned.  With only an archival node assigned the RAW
\* request is the request the release planning makes for a tier.
C21_RawSubscriptionsOwnRule ==
    pRaw.called
    => LET raw == RawOfDataset
           archival == pPhedex.archival_node
           tape == pPhedex.tape_node
           disk == pPhedex.disk_node
           cust == {i \in DOMAIN raw : raw[i].custodialSites # <<>>}
           non == {i \in DOMAIN raw : raw[i].nonCustodialSites # <<>>}
       IN /\ \A i \in DOMAIN raw : raw[i].dataTier = "RAW"
          /\ Len(raw) = Cardinality(cust) + Cardinality(non)
          /\ Cardinality(cust)
               = (IF archival # NoNode \/ tape # NoNode THEN 1 ELSE 0)
          /\ \A i \in cust :
                SiteLists(raw[i]) = <<NodeList(archival) \o NodeList(tape),
                                      <<>>, NodeList(archival)>>
          /\ Cardinality(non) = (IF disk # NoNode THEN 1 ELSE 0)
          /\ \A i \in non : SiteLists(raw[i]) = <<<<>>, <<disk>>, <<disk>>>>
          /\ (archival # NoNode /\ tape = NoNode /\ disk = NoNode)
             => raw = <<ArchivalSubscription(pPhedex, pDataset, "RAW")>>

\* a dataset with all three nodes: the RAW data is custodial at the archival
\* node and at the tape node
C21_Witness ==
    /\ pRaw.called
    /\ pPhedex.archival_node = "T0_Archive" /\ pPhedex.tape_node = "T1_Tape"
    /\ pPhedex.disk_node = "T1_Disk"
    /\ Len(pRaw.subs) = 3
    /\ pRaw.subs[1].custodialSites = <<"T0_Archive", "T1_Tape">>
    /\ pRaw.subs[1].autoApproveSites = <<"T0_Archive">>

(***************************************************************************)
(* Properties of the subscription planning with a tape node                *)
(***************************************************************************)
\* the planned requests of a tier, by their isSkim flag
FlaggedOfTier(tier, isSkim) ==
    {i \in 1..Len(pSubs) :
        pSubs[i].dataTier = tier /\ pSubs[i].isSkim = isSkim}

C26_SkimAndAlcaTiers ==
    (pPc = "done" /\ pPhedex.present /\ pPhedex.tape_node # NoNode)
    => /\ \A tier \in SkimDataTiers(pCfg) :
             /\ Cardinality(FlaggedOfTier(tier, TRUE)) = 1
             /\ \A i \in FlaggedOfTier(tier, TRUE) :
                   SiteLists(pSubs[i])
                     = <<<<pPhedex.tape_node>>,
                         IF pPhedex.disk_node # NoNode
                         THEN <<pPhedex.disk_node>> ELSE <<>>,
                         IF pPhedex.disk_node # NoNode
                         THEN <<pPhedex.disk_node>> ELSE <<>>>>
       /\ \A tier \in AlcaDataTiers(pCfg) :
             /\ Cardinality(FlaggedOfTier(tier, TRUE)) = 1
             /\ \A i \in FlaggedOfTier(tier, TRUE) :
                   SiteLists(pSubs[i])
                     = <<<<pPhedex.tape_node>>, <<>>, <<>>>>

\* a tape node without a disk node, physics and alignment skims: the skim
\* requests have no disk side
C26_Witness ==
    /\ pPc = "done" /\ pPhedex.present
    /\ pPhedex.tape_node = "T1_Tape" /\ pPhedex.disk_node = NoNode
    /\ pCfg.HasPhysicsSkims /\ pCfg.HasAlcaSkims
    /\ \E i, j \in 1..Len(pSubs) :
          /\ pSubs[i].dataTier = "USER" /\ pSubs[i].isSkim
          /\ pSubs[i].nonCustodialSites = <<>>
          /\ pSubs[j].dataTier = "ALCARECO" /\ pSubs[j].isSkim

(***************************************************************************)
(* Properties of the subscriptions of the PromptReco workflows of a run    *)
(***************************************************************************)
\* C28: in the passes for the datasets of one run, every subscription
\* attached to the PromptReco spec built for a dataset has that dataset as
\* its primaryDataset.
C28_SubscriptionsOfOwnDataset ==
    \A i \in 1..Len(pHistory) :
        pHistory[i].built
        => \A k \in 1..Len(pHistory[i].attached) :
              pHistory[i].attached[k].primaryDataset = pHistory[i].dataset

(***************************************************************************)
(* Properties of the subscriptions of configureRunStream                   *)
(***************************************************************************)
\* the datasets of a stream that have no archival, tape or disk node
UnassignedDatasets(nodes, datasets) ==
    {d \in datasets \cap DOMAIN nodes : NodesOf(nodes[d]) = {}}
\* the subscriptions of a list that are for a dataset or its error dataset
SubsOfDataset(subs, d) ==
    {i \in DOMAIN subs : subs[i].primaryDataset \in {d, ErrorDataset(d)}}
PhedexRows(store, run, d) ==
    {row \in store.phedex_config : row[1] = run /\ row[2] = d}
StreamConfigured(store, run, stream) == <<run, stream>> \in store.stream_done

\* the call of the step is a configureRunStream call for a Bulk or Express
\* stream that returned
StreamCallReturned ==
    /\ lastOp'.op = "configureRunStream" /\ lastOp'.outcome = "ok"
    /\ lastOp'.style \in {"Bulk", "Express"}

\* a configureRunStream call for a stream with datasets that has not been
\* configured returns
UnconfiguredStreamCallReturns ==
    (/\ lastOp'.op = "configureRunStream"
     /\ RunKind(db, lastOp'.run) = "hlt"
     /\ ~StreamConfigured(db, lastOp'.run, lastOp'.stream)
     /\ StreamDatasets(db, lastOp'.run, lastOp'.stream) # {})
    => lastOp'.outcome = "ok"

\* C22 as stated: a configureRunStream call for a Bulk or an Express stream
\* does not raise because of a dataset without nodes, and sets no
\* subscription and writes no PhEDEx configuration row for a dataset of the
\* stream that has no archival, tape or disk node, whatever the run.
C22_NoNodesNoSubscriptions ==
    [][/\ UnconfiguredStreamCallReturns
       /\ StreamCallReturned
          => \A d \in UnassignedDatasets(lastOp'.nodes,
                        StreamDatasets(db, lastOp'.run, lastOp'.stream)) :
                /\ SubsOfDataset(lastOp'.subscriptions, d) = {}
                /\ PhedexRows(db', lastOp'.run, d) = {}]_vars

\* C22, amended: the same for a Bulk stream and for an Express stream of a
\* run without an express subscribe node; for an Express stream of a run
\* with an express subscribe node every dataset of the stream gets one
\* subscription, non-custodial and auto-approved at that node, and one PhEDEx
\* configuration row with that node as disk node.
C22_NoNodesNoSubscriptionsUnlessExpressNode ==
    [][/\ UnconfiguredStreamCallReturns
       /\ StreamCallReturned
          => LET run == lastOp'.run
                 datasets == StreamDatasets(db, run, lastOp'.stream)
                 expressNode == RunExpressSubscribe(db, run)
                 subs == lastOp'.subscriptions
             IN IF lastOp'.style = "Bulk" \/ expressNode = NoNode
                THEN \A d \in UnassignedDatasets(lastOp'.nodes, datasets) :
                        /\ SubsOfDataset(subs, d) = {}
                        /\ PhedexRows(db', run, d) = {}
                ELSE \A d \in datasets :
                        /\ Cardinality(SubsOfDataset(subs, d)) = 1
                        /\ \A i \in SubsOfDataset(subs, d) :
                              /\ subs[i].primaryDataset = d
                              /\ SiteLists(subs[i])
                                   = <<<<>>, <<expressNode>>, <<expressNode>>>>
                        /\ PhedexRows(db', run, d)
                             = {<<run, d, NoNode, NoNode, expressNode>>}]_vars

\* a Bulk stream was configured whose dataset P1 has every node and whose
\* dataset P2 has none: subscriptions and a row for P1, none for P2
C22_Witness ==
    /\ lastOp.op = "configureRunStream" /\ lastOp.outcome = "ok"
    /\ lastOp.style = "Bulk" /\ lastOp.nodes = MixedNodes
    /\ Len(lastOp.subscriptions) = 3
    /\ SubsOfDataset(lastOp.subscriptions, "P2") = {}
    /\ PhedexRows(db, lastOp.run, "P1") # {}
    /\ PhedexRows(db, lastOp.run, "P2") = {}

(***************************************************************************)
(* Properties of configureRunStream calls that return                      *)
(***************************************************************************)
\* C27: a configureRunStream call for a stream with the style Ignore that
\* returns has set up no workflow: it has added the completion marker of the
\* (run, stream) and its style row, with the style Ignore, and has changed no
\* other table (no fileset, no subscription, no workflow monitoring, no
\* repack or express configuration, no release configuration), and it has
\* set no subscriptions.
C27_IgnoredStream ==
    [][(/\ lastOp'.op = "configureRunStream"
        /\ lastOp'.style = "Ignore" /\ lastOp'.outcome = "ok")
       => /\ \A t \in Tables \ {"stream_done", "stream_style"} :
                db'[t] = db[t]
          /\ <<lastOp'.run, lastOp'.stream>> \notin db.stream_done
          /\ db'.stream_done
                = db.stream_done \cup {<<lastOp'.run, lastOp'.stream>>}
          /\ db'.stream_style
                = db.stream_style
                    \cup {<<lastOp'.run, lastOp'.stream, "Ignore">>}
          /\ lastOp'.subscriptions = <<>>]_vars

\* an ignored stream has been configured: its marker and style are there,
\* its fileset is not
C27_Witness ==
    /\ lastOp.op = "configureRunStream" /\ lastOp.outcome = "ok"
    /\ lastOp.style = "Ignore"
    /\ <<lastOp.run, lastOp.stream>> \in db.stream_done
    /\ <<lastOp.run, lastOp.stream, "Ignore">> \in db.stream_style
    /\ db.stream_fileset = {}

\* C29 as stated: a configureRunStream call on a configured run that returns
\* has the completion marker and a style row of the (run, stream) in the
\* store, for runs with and without an HLT configuration.
C29_ReturnMeansCommitted ==
    [][(/\ lastOp'.op = "configureRunStream" /\ lastOp'.outcome = "ok"
        /\ RunKind(db, lastOp'.run) # "none")
       => /\ <<lastOp'.run, lastOp'.stream>> \in db'.stream_done
          /\ \E row \in db'.stream_style :
                row[1] = lastOp'.run /\ row[2] = lastOp'.stream]_vars

\* C29, amended: a configureRunStream call that returns on a run configured
\* with an HLT configuration has added the completion marker of the (run,
\* stream) and its style row, with the style of the stream; a call on a run
\* configured without one (a local run) returns and leaves the store as it
\* was.
C29_ReturnMeansCommittedUnlessLocal ==
    [][(lastOp'.op = "configureRunStream" /\ RunKind(db, lastOp'.run) # "none")
       => IF RunKind(db, lastOp'.run) = "local"
          THEN lastOp'.outcome = "ok" /\ db' = db
          ELSE lastOp'.outcome = "ok"
               => /\ <<lastOp'.run, lastOp'.stream>> \notin db.stream_done
                  /\ <<lastOp'.run, lastOp'.stream>> \in db'.stream_done
                  /\ {row \in db'.stream_style :
                          row[1] = lastOp'.run /\ row[2] = lastOp'.stream}
                       = {<<lastOp'.run, lastOp'.stream, lastOp'.style>>}]_vars

\* a Bulk stream of a run with an HLT configuration has been configured
C29_Witness ==
    /\ lastOp.op = "configureRunStream" /\ lastOp.outcome = "ok"
    /\ lastOp.style = "Bulk"
    /\ RunKind(db, lastOp.run) = "hlt"
    /\ <<lastOp.run, lastOp.stream>> \in db.stream_done
    /\ <<lastOp.run, lastOp.stream, "Bulk">> \in db.stream_style
    /\ \E run \in Runs : RunKind(db, run) = "local"

(***************************************************************************)
(* Properties of the batches of releasePromptReco                          *)
(***************************************************************************)
\* the policy of a dataset declares an output tier of the PromptReco
DeclaresOutputTier(plan) ==
    \/ plan.WriteRECO \/ plan.WriteAOD \/ plan.WriteMINIAOD \/ plan.WriteDQM
    \/ plan.HasAlcaSkims

\* the pair is of a batch that the call of the step committed
CommittedInStep(pair) ==
    /\ pair \in lastOp'.selected
    /\ lastOp'.outcome = "ok" \/ pair[1] < lastOp'.run

\* C23: every pair of a batch that a releasePromptReco call committed has
\* got its release record and its configuration row; it has got a PromptReco
\* workflow, subscribed to the fileset of the dataset, monitored and marked
\* as injected, if and only if the policy of the dataset has DoReco set and
\* declares an output tier (RECO, AOD, MINIAOD, the DQM tier, or ALCARECO
\* from alignment skims).
C23_WorkflowIffRecoAndTiers ==
    [][lastOp'.op = "releasePromptReco" =>
        \A pair \in AllPairs :
            CommittedInStep(pair)
            => LET cfg == lastOp'.cfgs[pair[2]]
                   wanted == cfg.DoReco /\ DeclaresOutputTier(cfg.plan)
               IN /\ ReleaseRecords(db, pair) = 0
                  /\ ReleaseRecords(db', pair) = 1
                  /\ pair \in db'.reco_config
                  /\ RecoSubscriptions(db, pair) = 0
                  /\ RecoSubscriptions(db', pair) = (IF wanted THEN 1 ELSE 0)
                  /\ (<<RecoWorkflow(pair)>> \in db'.injected) <=> wanted
                  /\ wanted => <<MergeFileset(pair[1], pair[2])>>
                                    \in db'.workflow_monitoring]_vars

\* a batch was committed in which P1, with alignment skims only, got a
\* workflow and P2, with physics skims only, got none
C23_Witness ==
    /\ lastOp.op = "releasePromptReco" /\ lastOp.outcome = "ok"
    /\ \E run \in Runs :
          /\ {<<run, "P1">>, <<run, "P2">>} \subseteq lastOp.selected
          /\ lastOp.cfgs["P1"].plan = PlanAlcaOnly
          /\ lastOp.cfgs["P2"].plan = PlanPhysicsSkimsOnly
          /\ ReleaseRecords(db, <<run, "P1">>) = 1
          /\ ReleaseRecords(db, <<run, "P2">>) = 1
          /\ RecoSubscriptions(db, <<run, "P1">>) = 1
          /\ RecoSubscriptions(db, <<run, "P2">>) = 0

\* the runs of the pairs that got a release record in the step
ReleasedRuns ==
    {pair[1] : pair \in {x \in lastOp'.selected :
                            ReleaseRecords(db', x) > ReleaseRecords(db, x)}}
EligibleRuns == {pair[1] : pair \in lastOp'.selected}

\* C24: the runs that a releasePromptReco call releases are the eligible
\* runs below the run whose batch failed, or all eligible runs if no batch
\* failed: a prefix of the eligible runs in ascending order, with no run
\* above a failed run.
C24_ReleasedRunsArePrefix ==
    [][lastOp'.op = "releasePromptReco" =>
        /\ \A r \in ReleasedRuns, q \in EligibleRuns :
                q < r => q \in ReleasedRuns
        /\ lastOp'.outcome = "ok" => ReleasedRuns = EligibleRuns
        /\ lastOp'.outcome = "fatal"
            => /\ lastOp'.run \in EligibleRuns
               /\ ReleasedRuns = {q \in EligibleRuns : q < lastOp'.run}]_vars

\* both runs were eligible and the batch of the first failed: the second has
\* not been released
C24_Witness ==
    /\ lastOp.op = "releasePromptReco" /\ lastOp.outcome = "fatal"
    /\ lastOp.run = UnassignedCutover - 1
    /\ \E d \in Datasets : <<UnassignedCutover, d>> \in lastOp.selected
    /\ \A pair \in lastOp.selected : ReleaseRecords(db, pair) = 0
=============================================================================
